---- MODULE Spec2Model ----
(***************************************************************************)
(* Model of the SOVRA agent core: the persistent task queue of             *)
(* autonomy/goal_planner.py (GoalPlanner, Task) and the dispatcher of       *)
(* autonomy/execution_loop.py (ExecutionLoop.start), together with the      *)
(* producers that enqueue work (scheduler callbacks, plan, manual add),     *)
(* the queue file, failing writes of that file and process restarts.        *)
(***************************************************************************)
EXTENDS Integers, Sequences, FiniteSets, TLC

(* ---------------------------------------------------------------- bounds *)

\* Task ids ever issued (uuid4 prefixes are modelled as fresh ids 1..MaxIds).
MaxIds == 3
\* Longest depends_on list a producer passes in.
MaxDeps == 1
\* Largest value of AUTONOMY_MAX_RETRIES the model configures (0..MaxRetriesCfg).
MaxRetriesCfg == 2
\* Longest step list the LLM returns to plan().
MaxSteps == 2
\* Number of times a write of the queue file raises (the two writes of one
\* loop iteration count once).
MaxFaults == 1
\* Number of priority classes the producers use (the first ones of InputPriorities).
MaxPriorities == 2

(* ------------------------------------------------------- enums and values *)

\* Python None.
None == "None"

\* TaskPriority members and their string values (goal_planner.py 22-26).
TaskPriority == {"CRITICAL", "HIGH", "NORMAL", "BACKGROUND"}

PriorityValue(p) ==
    CASE p = "CRITICAL" -> "critical"
      [] p = "HIGH" -> "high"
      [] p = "NORMAL" -> "normal"
      [] p = "BACKGROUND" -> "background"

\* TaskStatus members and their string values (goal_planner.py 29-35).
TaskStatus == {"PENDING", "IN_PROGRESS", "COMPLETED", "FAILED", "BLOCKED", "CANCELLED"}

StatusValue(s) ==
    CASE s = "PENDING" -> "pending"
      [] s = "IN_PROGRESS" -> "in_progress"
      [] s = "COMPLETED" -> "completed"
      [] s = "FAILED" -> "failed"
      [] s = "BLOCKED" -> "blocked"
      [] s = "CANCELLED" -> "cancelled"

\* Enum lookup by value, TaskPriority(v) / TaskStatus(v).
PriorityOfValue(v) == CHOOSE p \in TaskPriority : PriorityValue(p) = v

StatusOfValue(v) == CHOOSE s \in TaskStatus : StatusValue(s) = v

\* Mutant of priority_order: high before critical.
priority_order_Swapped == <<"HIGH", "CRITICAL", "NORMAL", "BACKGROUND">>

\* The scan order of get_next_task.
priority_order == <<"CRITICAL", "HIGH", "NORMAL", "BACKGROUND">>

(* ------------------------------------------------------------------ state *)

VARIABLES
    tasks,        \* GoalPlanner.tasks: the in-memory queue, a sequence of Task
    file,         \* the queue file: [state: absent | json | torn, data: list of dicts]
    pc,           \* ExecutionLoop.start: idle | exec | except | reflect | dead
    cur,          \* id of the task the loop holds (0: none)
    max_retries,  \* int(os.getenv("AUTONOMY_MAX_RETRIES", "3"))
    nextId,       \* next fresh task id
    faults,       \* number of times a write of the queue file raised so far
    dispatched,   \* history: ids of the tasks the loop has ever dispatched
    everFailed,   \* history: ids of the tasks mark_failed has ever set to failed
    durable,      \* history: the in-memory queue when a write last returned
    policy,       \* PersonalityEngine.autonomy, the part the shell handler reads
    spawned,      \* history: the commands subprocess.run was called with
    running,      \* ExecutionLoop.running
    stopped,      \* history: ExecutionLoop.stop() has been called
    schedule_file, \* the jobs file: [state: absent | json | torn, data: list of dicts]
    custom_jobs,  \* ProactiveScheduler.custom_jobs
    scheduler,    \* ProactiveScheduler.scheduler: the ids of the jobs it holds
    decision,     \* what the last DecisionEngine.evaluate call gave
    reflection,   \* what the last SelfReflection.reflect call parsed
    last          \* the operation that produced this state

\* The state outside the queue and its dispatcher.
subsystems == <<running, stopped, schedule_file, custom_jobs, scheduler,
                decision, reflection>>

vars == <<tasks, file, pc, cur, max_retries, nextId, faults, dispatched,
          everFailed, durable, policy, spawned, subsystems, last>>

(* ------------------------------------------------------------- Task model *)

\* Task.__init__: a new task is pending, without result, error or attempts.
\* goal, action, task_type, command, parent_id and created_at are given by the
\* caller (or the clock) and are the same for every task of the model.
NewTask(id, priority, depends_on) ==
    [id |-> id, goal |-> "goal", action |-> "action", task_type |-> "think",
     command |-> "", priority |-> priority, status |-> "PENDING",
     parent_id |-> None, depends_on |-> depends_on, result |-> None,
     error |-> None, attempts |-> <<>>, created_at |-> "t0",
     completed_at |-> None]

\* Task.to_dict: every field, the enum members as their values.
to_dict(t) ==
    [id |-> t.id, goal |-> t.goal, action |-> t.action,
     task_type |-> t.task_type, command |-> t.command,
     priority |-> PriorityValue(t.priority), status |-> StatusValue(t.status),
     parent_id |-> t.parent_id, depends_on |-> t.depends_on,
     result |-> t.result, error |-> t.error, attempts |-> t.attempts,
     created_at |-> t.created_at, completed_at |-> t.completed_at]

\* Mutant of from_dict: the attempts are not restored.
from_dict_NoAttempts(d) ==
    [id |-> d.id, goal |-> d.goal, action |-> d.action,
     task_type |-> d.task_type, command |-> d.command,
     priority |-> PriorityOfValue(d.priority),
     status |-> StatusOfValue(d.status), parent_id |-> d.parent_id,
     depends_on |-> d.depends_on, result |-> d.result, error |-> d.error,
     attempts |-> <<>>, created_at |-> d.created_at,
     completed_at |-> d.completed_at]

\* Mutant of from_dict: completed_at is not restored.
from_dict_NoCompletedAt(d) ==
    [id |-> d.id, goal |-> d.goal, action |-> d.action,
     task_type |-> d.task_type, command |-> d.command,
     priority |-> PriorityOfValue(d.priority),
     status |-> StatusOfValue(d.status), parent_id |-> d.parent_id,
     depends_on |-> d.depends_on, result |-> d.result, error |-> d.error,
     attempts |-> d.attempts, created_at |-> d.created_at,
     completed_at |-> None]

\* dict.get(k, default)
Get(d, k, default) == IF k \in DOMAIN d THEN d[k] ELSE default

\* Task.from_dict: the constructor arguments come from the dict, then id,
\* status, result, error, attempts, created_at and completed_at are
\* overwritten; goal and id are read with d[k], every other key with a
\* default ("now" is the clock reading of a missing created_at).
from_dict(d) ==
    [id |-> d.id, goal |-> d.goal, action |-> Get(d, "action", ""),
     task_type |-> Get(d, "task_type", "think"),
     command |-> Get(d, "command", ""),
     priority |-> PriorityOfValue(Get(d, "priority", "normal")),
     status |-> StatusOfValue(Get(d, "status", "pending")),
     parent_id |-> Get(d, "parent_id", None),
     depends_on |-> Get(d, "depends_on", <<>>),
     result |-> Get(d, "result", None), error |-> Get(d, "error", None),
     attempts |-> Get(d, "attempts", <<>>),
     created_at |-> Get(d, "created_at", "now"),
     completed_at |-> Get(d, "completed_at", None)]

Serialize(q) == [i \in 1..Len(q) |-> to_dict(q[i])]

Deserialize(data) == [i \in 1..Len(data) |-> from_dict(data[i])]

\* GoalPlanner._load_queue: a missing or unparsable file gives the empty queue.
LoadQueue(f) == IF f.state = "json" THEN Deserialize(f.data) ELSE <<>>

\* What a successful _save_queue leaves on disk.
SavedFile(q) == [state |-> "json", data |-> Serialize(q)]

\* Mutant of FailedFiles: a failing write leaves an empty list on disk.
FailedFiles_EmptyList(f) == {[state |-> "json", data |-> <<>>]}

\* What a failing _save_queue can leave on disk: open() failed (the file is
\* untouched) or the dump stopped after open(path, "w") truncated the file.
FailedFiles(f) == {f, [state |-> "torn", data |-> <<>>]}

(* ---------------------------------------------------- pure queue functions *)

Min(S) == CHOOSE x \in S : \A y \in S : x <= y

\* Index of the first task with this id (0: none), as the for/break loops find it.
FirstIndex(q, id) ==
    LET S == {i \in 1..Len(q) : q[i].id = id}
    IN IF S = {} THEN 0 ELSE Min(S)

\* Mutant of DepsMet: a dependency that finished counts, completed or failed.
DepsMet_Finished(q, i) ==
    \A k \in 1..Len(q[i].depends_on) :
        \E j \in 1..Len(q) :
            /\ q[j].id = q[i].depends_on[k]
            /\ q[j].status \in {"COMPLETED", "FAILED"}

\* Mutant of DepsMet: the dependency only has to be in the queue.
DepsMet_Mut(q, i) ==
    \A k \in 1..Len(q[i].depends_on) :
        \E j \in 1..Len(q) : q[j].id = q[i].depends_on[k]

\* get_next_task's deps_met for the task at index i.
DepsMet(q, i) ==
    \A k \in 1..Len(q[i].depends_on) :
        \E j \in 1..Len(q) :
            q[j].id = q[i].depends_on[k] /\ q[j].status = "COMPLETED"

\* Mutant of ScanPriority: the last match instead of the first.
ScanPriority_Last(q, p) ==
    LET S == {i \in 1..Len(q) :
                 /\ q[i].status = "PENDING"
                 /\ q[i].priority = p
                 /\ DepsMet(q, i)}
    IN IF S = {} THEN 0 ELSE CHOOSE x \in S : \A y \in S : y <= x

\* The inner loop of get_next_task for one priority: first match, 0 if none.
ScanPriority(q, p) ==
    LET S == {i \in 1..Len(q) :
                 /\ q[i].status = "PENDING"
                 /\ q[i].priority = p
                 /\ DepsMet(q, i)}
    IN IF S = {} THEN 0 ELSE Min(S)

RECURSIVE ScanFrom(_, _)
ScanFrom(q, k) ==
    IF k > Len(priority_order) THEN 0
    ELSE IF ScanPriority(q, priority_order[k]) # 0
         THEN ScanPriority(q, priority_order[k])
         ELSE ScanFrom(q, k + 1)

\* GoalPlanner.get_next_task: index of the returned task, 0 for None.
get_next_task(q) == ScanFrom(q, 1)

\* mark_completed, the in-memory part, when datetime.now() reads ts.
mark_completed_at(q, id, result, ts) ==
    LET i == FirstIndex(q, id)
    IN IF i = 0 THEN q
       ELSE [q EXCEPT ![i].status = "COMPLETED",
                      ![i].result = result,
                      ![i].completed_at = ts]

\* mark_completed, the in-memory part, with the one clock reading "ts" that
\* stands for every timestamp where the time of day plays no role.
mark_completed_mem(q, id, result) == mark_completed_at(q, id, result, "ts")

\* Mutant of StatusAfterFailure: one attempt too many before the task fails.
StatusAfterFailure_Mut(n, mr) == IF n > mr THEN "FAILED" ELSE "PENDING"

\* The status mark_failed chooses once the attempt is appended.
StatusAfterFailure(n, mr) == IF n >= mr THEN "FAILED" ELSE "PENDING"

\* mark_failed, the in-memory part.
mark_failed_mem(q, id, error, attempt, mr) ==
    LET i == FirstIndex(q, id)
    IN IF i = 0 THEN q
       ELSE [q EXCEPT ![i].error = error,
                      ![i].attempts = Append(@, attempt),
                      ![i].status = StatusAfterFailure(Len(q[i].attempts) + 1, mr)]

\* Mutant of clear_completed_mem: the failed tasks are removed as well.
clear_completed_mem_Finished(q) ==
    SelectSeq(q, LAMBDA t : t.status \notin {"COMPLETED", "FAILED"})

\* clear_completed, the in-memory part.
clear_completed_mem(q) == SelectSeq(q, LAMBDA t : t.status # "COMPLETED")

(* ------------------------------------------------------------------- Init *)

\* No reflection has been made yet: the reflection callback of the loop has
\* not been called.
NoReflection ==
    [task_id |-> 0, should_escalate |-> FALSE, new_strategy |-> <<>>,
     escalation_reason |-> <<>>]

\* PersonalityEngine._default_config: autonomy is {"level": "full"}, so there
\* is no confirmation list, no risk list, and shell commands run unattended.
DefaultPolicy ==
    [require_confirmation_for |-> {}, dangerous |-> {},
     auto_execute_shell |-> TRUE]

\* ExecutionLoop.start has run line 48 and stop() was not called.
LoopStarted == running = TRUE /\ stopped = FALSE

\* ProactiveScheduler.__init__: no custom job and an empty AsyncIOScheduler;
\* there is no jobs file yet.
SchedulerInit ==
    /\ schedule_file = [state |-> "absent", data |-> <<>>]
    /\ custom_jobs = <<>>
    /\ scheduler = {}

Init ==
    /\ tasks = <<>>
    /\ file = [state |-> "absent", data |-> <<>>]
    /\ pc = "idle"
    /\ cur = 0
    /\ max_retries \in 0..MaxRetriesCfg
    /\ nextId = 1
    /\ faults = 0
    /\ dispatched = {}
    /\ everFailed = {}
    /\ durable = <<>>
    /\ policy = DefaultPolicy
    /\ spawned = {}
    /\ LoopStarted
    /\ SchedulerInit
    /\ decision = None
    /\ reflection = NoReflection
    /\ last = [op |-> "init", id |-> 0, ok |-> TRUE, exec |-> "none",
                resp |-> "none", steps |-> <<>>]

(* ------------------------------------------------------------ persistence *)

\* GoalPlanner._save_queue on the queue q: with ok the whole list is written;
\* otherwise the write raises (OSError) and leaves one of FailedFiles on disk.
SaveQueue(q, ok) ==
    IF ok
    THEN file' = SavedFile(q) /\ faults' = faults /\ durable' = q
    ELSE /\ faults < MaxFaults
         /\ file' \in FailedFiles(file)
         /\ faults' = faults + 1
         /\ durable' = durable

(* -------------------------------------------------------------- producers *)

\* The priorities producers pass in, most used first.
InputPriorities == <<"NORMAL", "CRITICAL", "HIGH", "BACKGROUND">>

Priorities ==
    {InputPriorities[k] : k \in 1..(IF MaxPriorities < 4 THEN MaxPriorities ELSE 4)}

\* depends_on lists a caller of add_task can pass: ids of tasks created so far.
DepLists(ids) ==
    UNION {[1..n -> ids] : n \in 0..MaxDeps}

\* Mutant of Enqueue: the new tasks go to the front of the queue.
Enqueue_Front(q, new) == new \o q

\* self.tasks.append(task) / self.tasks.extend(new_tasks).
Enqueue(q, new) == q \o new

\* GoalPlanner.add_task, called by the scheduler callbacks and by hand.
AddTask(p, deps, ok) ==
    /\ pc # "except"
    /\ nextId <= MaxIds
    /\ tasks' = Enqueue(tasks, <<NewTask(nextId, p, deps)>>)
    /\ SaveQueue(tasks', ok)
    /\ nextId' = nextId + 1
    /\ last' = [op |-> "add", id |-> nextId, ok |-> ok, exec |-> "none",
                resp |-> "none", steps |-> <<>>]
    /\ UNCHANGED <<subsystems, pc, cur, max_retries, policy, spawned, dispatched,
                   everFailed>>

\* The step lists the LLM can return: planner-local ids 1..MaxSteps, references
\* to 1..MaxSteps+1 (MaxSteps+1 is the id of no step).
StepSet ==
    [id : 1..MaxSteps, depends_on : DepLists(1..(MaxSteps + 1))]

StepLists(n) == [1..n -> StepSet]

\* id_mapping after the first loop of plan(): a later step with the same
\* planner-local id overwrites an earlier one.
IdMapping(steps, base, l) ==
    LET S == {k \in 1..Len(steps) : steps[k].id = l}
    IN IF S = {} THEN 0 ELSE base + (CHOOSE k \in S : \A m \in S : m <= k) - 1

\* Mutant of ResolveDeps: the planner-local ids are kept as they are.
ResolveDeps_Raw(steps, base, deps) == deps

\* [id_mapping[d] for d in deps if d in id_mapping]
RECURSIVE ResolveDeps(_, _, _)
ResolveDeps(steps, base, deps) ==
    IF deps = <<>> THEN <<>>
    ELSE IF IdMapping(steps, base, Head(deps)) = 0
         THEN ResolveDeps(steps, base, Tail(deps))
         ELSE <<IdMapping(steps, base, Head(deps))>>
                  \o ResolveDeps(steps, base, Tail(deps))

\* Mutant of PlanTasks: only the task of the first step is created.
PlanTasks_Partial(steps, base, p) ==
    IF steps = <<>> THEN <<>>
    ELSE <<NewTask(base, p, ResolveDeps(steps, base, steps[1].depends_on))>>

\* The tasks plan() creates for a step list, ids base, base+1, ...
PlanTasks(steps, base, p) ==
    [k \in 1..Len(steps) |->
        NewTask(base + k - 1, p, ResolveDeps(steps, base, steps[k].depends_on))]

\* GoalPlanner.plan after the LLM answered with a JSON object, fenced or not:
\* steps is its "steps" list, empty when the key is missing. The tasks are
\* built, the queue is extended and saved with no await in between.
Plan(steps, p, ok) ==
    /\ pc # "except"
    /\ nextId + Len(steps) - 1 <= MaxIds
    /\ tasks' = Enqueue(tasks, PlanTasks(steps, nextId, p))
    /\ SaveQueue(tasks', ok)
    /\ nextId' = nextId + Len(steps)
    /\ last' = [op |-> "plan", id |-> nextId, ok |-> ok, exec |-> "none",
                resp |-> "steps", steps |-> steps]
    /\ UNCHANGED <<subsystems, pc, cur, max_retries, policy, spawned, dispatched,
                   everFailed>>

\* The single task of line 170: its action is the goal, no dependencies.
FallbackTasks(base, p) ==
    <<[NewTask(base, p, <<>>) EXCEPT !.action = NewTask(base, p, <<>>).goal]>>

\* GoalPlanner.plan after the LLM answered with text that is not JSON (also
\* the timeout text of LLMClient.generate): json.loads raises JSONDecodeError
\* and the single-task plan is used.
PlanFallback(p, ok) ==
    /\ pc # "except"
    /\ nextId <= MaxIds
    /\ tasks' = Enqueue(tasks, FallbackTasks(nextId, p))
    /\ SaveQueue(tasks', ok)
    /\ nextId' = nextId + 1
    /\ last' = [op |-> "plan", id |-> nextId, ok |-> ok, exec |-> "none",
                resp |-> "not_json", steps |-> <<>>]
    /\ UNCHANGED <<subsystems, pc, cur, max_retries, policy, spawned, dispatched,
                   everFailed>>

\* The ways plan() raises before it touches the queue: the transport raised
\* (LLMClient.generate re-raises HTTPStatusError and ConnectError), or the
\* answer is JSON but not an object with a list of step objects (plan.get or
\* step.get raise AttributeError, which line 168 does not catch).
PlanErrors == {"transport_error", "not_object"}

PlanRaises(resp) ==
    /\ pc # "except"
    /\ last' = [op |-> "plan", id |-> 0, ok |-> FALSE, exec |-> "none",
                resp |-> resp, steps |-> <<>>]
    /\ UNCHANGED <<subsystems, tasks, file, durable, pc, cur, max_retries, policy,
                   spawned, nextId, faults, dispatched, everFailed>>

\* GoalPlanner.clear_completed.
ClearCompleted(ok) ==
    /\ pc # "except"
    /\ \E i \in 1..Len(tasks) : tasks[i].status = "COMPLETED"
    /\ tasks' = clear_completed_mem(tasks)
    /\ SaveQueue(tasks', ok)
    /\ last' = [op |-> "clear", id |-> 0, ok |-> ok, exec |-> "none",
                resp |-> "none", steps |-> <<>>]
    /\ UNCHANGED <<subsystems, pc, cur, max_retries, policy, spawned, nextId, dispatched,
                   everFailed>>

(* ------------------------------------------------------------- dispatcher *)

\* ExecutionLoop.start, lines 51-60: the flag is read, the next task is taken
\* and set to in_progress on the object, without a save.
Dispatch ==
    /\ pc = "idle"
    /\ running
    /\ get_next_task(tasks) # 0
    /\ LET i == get_next_task(tasks)
       IN /\ tasks' = [tasks EXCEPT ![i].status = "IN_PROGRESS"]
          /\ cur' = tasks[i].id
          /\ dispatched' = dispatched \cup {tasks[i].id}
          /\ everFailed' = everFailed
          /\ last' = [op |-> "dispatch", id |-> tasks[i].id, ok |-> TRUE,
                      exec |-> "none",
                resp |-> "none", steps |-> <<>>]
    /\ pc' = "exec"
    /\ UNCHANGED <<subsystems, file, durable, max_retries, policy, spawned, nextId,
                   faults>>

\* The ids mark_failed has set to failed, after a call for id on the queue q.
NoteFailed(q, id) ==
    IF \E i \in 1..Len(q) : q[i].id = id /\ q[i].status = "FAILED"
    THEN everFailed \cup {id} ELSE everFailed

\* Where the loop goes after mark_failed returned: the reflection hook runs
\* only if the task is pending again.
AfterFailure(q, id) ==
    IF FirstIndex(q, id) # 0 /\ q[FirstIndex(q, id)].status = "PENDING"
    THEN "reflect" ELSE "idle"

\* Lines 63-65 for a handler that returned result: mark_completed saved the
\* queue and the loop is idle again.
RecordCompleted(result) ==
    /\ pc = "exec"
    /\ tasks' = mark_completed_mem(tasks, cur, result)
    /\ SaveQueue(tasks', TRUE)
    /\ pc' = "idle"
    /\ cur' = 0
    /\ last' = [op |-> "mark_completed", id |-> cur, ok |-> TRUE,
                exec |-> "returned",
                resp |-> "none", steps |-> <<>>]
    /\ UNCHANGED <<subsystems, max_retries, policy, nextId, dispatched, everFailed>>

\* Lines 63-65: the executor returned and mark_completed saved the queue.
ExecReturns == RecordCompleted("out") /\ UNCHANGED spawned

\* Lines 63-64 and 137-141: the executor returned, mark_completed changed the
\* task and its save raised; control is in the except branch of the loop.
MarkCompletedRaises ==
    /\ pc = "exec"
    /\ tasks' = mark_completed_mem(tasks, cur, "out")
    /\ SaveQueue(tasks', FALSE)
    /\ pc' = "except"
    /\ last' = [op |-> "mark_completed", id |-> cur, ok |-> FALSE,
                exec |-> "returned",
                resp |-> "none", steps |-> <<>>]
    /\ UNCHANGED <<subsystems, cur, max_retries, policy, spawned, nextId, dispatched,
                   everFailed>>

\* Lines 66-76 after a save inside mark_completed raised: the loop calls
\* mark_failed for the task; with ok its save works, otherwise it raises too
\* and ends start().
HandleSaveError(ok) ==
    /\ pc = "except"
    /\ tasks' = mark_failed_mem(tasks, cur, "write_error", "attempt", max_retries)
    /\ IF ok THEN file' = SavedFile(tasks') ELSE file' \in FailedFiles(file)
    /\ durable' = IF ok THEN tasks' ELSE durable
    /\ pc' = IF ok THEN AfterFailure(tasks', cur) ELSE "dead"
    /\ cur' = IF pc' = "reflect" THEN cur ELSE 0
    /\ last' = [op |-> "mark_failed", id |-> cur, ok |-> ok,
                exec |-> "returned",
                resp |-> "none", steps |-> <<>>]
    /\ everFailed' = NoteFailed(tasks', cur)
    /\ UNCHANGED <<subsystems, max_retries, policy, spawned, nextId, faults, dispatched>>

\* Lines 66-76 for a handler that raised error: mark_failed records the
\* attempt, whatever the class of the exception; a failing save inside
\* mark_failed ends start().
RecordFailed(error, ok) ==
    /\ pc = "exec"
    /\ tasks' = mark_failed_mem(tasks, cur, error, "attempt", max_retries)
    /\ SaveQueue(tasks', ok)
    /\ pc' = IF ok THEN AfterFailure(tasks', cur) ELSE "dead"
    /\ cur' = IF pc' = "reflect" THEN cur ELSE 0
    /\ last' = [op |-> "mark_failed", id |-> cur, ok |-> ok,
                exec |-> "raised",
                resp |-> "none", steps |-> <<>>]
    /\ everFailed' = NoteFailed(tasks', cur)
    /\ UNCHANGED <<subsystems, max_retries, policy, nextId, dispatched>>

\* Lines 66-76: the executor raised and mark_failed records the attempt; a
\* failing save inside mark_failed ends start().
ExecRaises(ok) == RecordFailed("exec_error", ok) /\ UNCHANGED spawned

\* Line 76: the reflection hook returned.
ReflectReturns ==
    /\ pc = "reflect"
    /\ pc' = "idle"
    /\ cur' = 0
    /\ last' = [op |-> "reflect", id |-> cur, ok |-> TRUE, exec |-> "none",
                resp |-> "none", steps |-> <<>>]
    /\ UNCHANGED <<subsystems, tasks, file, durable, max_retries, policy, spawned,
                   nextId, faults, dispatched, everFailed>>

\* Line 76: the reflection hook raised, which ends start().
ReflectRaises ==
    /\ pc = "reflect"
    /\ pc' = "dead"
    /\ cur' = 0
    /\ last' = [op |-> "reflect", id |-> cur, ok |-> FALSE, exec |-> "none",
                resp |-> "none", steps |-> <<>>]
    /\ UNCHANGED <<subsystems, tasks, file, durable, max_retries, policy, spawned,
                   nextId, faults, dispatched, everFailed>>

(* ------------------------------------------------------------ environment *)

\* The process ends and starts again: GoalPlanner.__init__ loads the file and
\* a new loop starts.
Restart ==
    /\ tasks' = LoadQueue(file)
    /\ pc' = "idle"
    /\ cur' = 0
    /\ last' = [op |-> "restart", id |-> 0, ok |-> TRUE, exec |-> "none",
                resp |-> "none", steps |-> <<>>]
    /\ UNCHANGED <<subsystems, file, durable, max_retries, policy, spawned, nextId,
                   faults, dispatched, everFailed>>

Next ==
    \/ \E p \in Priorities : \E deps \in DepLists(1..(nextId - 1)) :
           \E ok \in BOOLEAN : AddTask(p, deps, ok)
    \/ \E n \in 1..MaxSteps :
           /\ nextId + n - 1 <= MaxIds
           /\ \E steps \in StepLists(n) : \E p \in Priorities :
                  \E ok \in BOOLEAN : Plan(steps, p, ok)
    \/ \E ok \in BOOLEAN : ClearCompleted(ok)
    \/ Dispatch
    \/ ExecReturns
    \/ MarkCompletedRaises
    \/ \E ok \in BOOLEAN : HandleSaveError(ok)
    \/ \E ok \in BOOLEAN : ExecRaises(ok)
    \/ ReflectReturns
    \/ ReflectRaises
    \/ Restart

Spec == Init /\ [][Next]_vars

(* ------------------------------------------- get_next_task on any queue *)

\* The longest queue get_next_task is applied to in SpecQueue.
MaxQueue == 2

\* The tasks with this id a queue can hold: any priority, any status, any
\* depends_on over the ids of the queue.
QueueTask(id) ==
    {[NewTask(id, p, deps) EXCEPT !.status = st] :
        p \in TaskPriority, st \in TaskStatus, deps \in DepLists(1..MaxQueue)}

\* self.tasks: the queues of n tasks with the ids 1..n.
RECURSIVE Queues(_)
Queues(n) ==
    IF n = 0 THEN {<<>>}
    ELSE {Append(q, t) : q \in Queues(n - 1), t \in QueueTask(n)}

InitQueue ==
    /\ tasks \in UNION {Queues(n) : n \in 0..MaxQueue}
    /\ file = [state |-> "absent", data |-> <<>>]
    /\ pc = "idle"
    /\ cur = 0
    /\ max_retries = 0
    /\ nextId = Len(tasks) + 1
    /\ faults = 0
    /\ dispatched = {}
    /\ everFailed = {}
    /\ durable = <<>>
    /\ policy = DefaultPolicy
    /\ spawned = {}
    /\ LoopStarted
    /\ SchedulerInit
    /\ decision = None
    /\ reflection = NoReflection
    /\ last = [op |-> "init", id |-> 0, ok |-> TRUE, exec |-> "none",
                resp |-> "none", steps |-> <<>>]

\* A call of GoalPlanner.get_next_task: last.id is the id of the task it
\* returned, 0 for None.
GetNextTask ==
    /\ last.op = "init"
    /\ last' = [op |-> "get_next_task",
                id |-> IF get_next_task(tasks) = 0 THEN 0
                       ELSE tasks[get_next_task(tasks)].id,
                ok |-> TRUE, exec |-> "none",
                resp |-> "none", steps |-> <<>>]
    /\ UNCHANGED <<subsystems, tasks, file, durable, pc, cur, max_retries, policy,
                   spawned, nextId, faults, dispatched, everFailed>>

NextQueue == GetNextTask

SpecQueue == InitQueue /\ [][NextQueue]_vars

(* ------------------------------------------------ plan() on any LLM answer *)

\* The queue plan() finds: empty, or one task enqueued earlier.
PlanBaseQueues == {<<>>, <<NewTask(1, "NORMAL", <<>>)>>}

InitPlan ==
    /\ tasks \in PlanBaseQueues
    /\ file = IF tasks = <<>> THEN [state |-> "absent", data |-> <<>>]
              ELSE SavedFile(tasks)
    /\ pc = "idle"
    /\ cur = 0
    /\ max_retries = 0
    /\ nextId = Len(tasks) + 1
    /\ faults = 0
    /\ dispatched = {}
    /\ everFailed = {}
    /\ durable = tasks
    /\ policy = DefaultPolicy
    /\ spawned = {}
    /\ LoopStarted
    /\ SchedulerInit
    /\ decision = None
    /\ reflection = NoReflection
    /\ last = [op |-> "init", id |-> 0, ok |-> TRUE, exec |-> "none",
               resp |-> "none", steps |-> <<>>]

\* plan() with each kind of answer: a JSON object with any step list (none
\* included), text that is not JSON, JSON that is not such an object, and a
\* transport that raises.
NextPlan ==
    \/ \E n \in 0..MaxSteps :
           /\ nextId + n - 1 <= MaxIds
           /\ \E steps \in StepLists(n) : \E p \in TaskPriority :
                  \E ok \in BOOLEAN : Plan(steps, p, ok)
    \/ \E p \in TaskPriority : \E ok \in BOOLEAN : PlanFallback(p, ok)
    \/ \E resp \in PlanErrors : PlanRaises(resp)

SpecPlan == InitPlan /\ [][NextPlan]_vars

(* ------------------------------------------ the shell handler and the loop *)

\* Longest command, in words.
MaxCmd == 2

\* Strings are sequences of words; "RM" is "rm" in upper case.
Words == {"rm", "RM", "ls"}

Lower(w) == IF w = "RM" THEN "rm" ELSE w

\* str.lower()
LowerStr(s) == [i \in DOMAIN s |-> Lower(s[i])]

\* sub in s
Contains(s, sub) ==
    \E i \in 0..(Len(s) - Len(sub)) : SubSeq(s, i + 1, i + Len(sub)) = sub

Commands == UNION {[1..n -> Words] : n \in 0..MaxCmd}

\* The values of autonomy the model configures: require_confirmation_for,
\* risk_assessment.dangerous, risk_assessment.moderate, auto_execute_shell.
Policies ==
    [require_confirmation_for : SUBSET {<<"rm">>, <<"ls", "rm">>},
     dangerous : SUBSET {<<"RM">>, <<"shell:">>},
     moderate : SUBSET {<<"ls">>},
     auto_execute_shell : BOOLEAN]

\* PersonalityEngine.can_auto_execute.
can_auto_execute(pol, action_type) ==
    IF action_type = "shell" THEN pol.auto_execute_shell
    ELSE action_type \in {"files", "packages", "web", "schedule"}

\* PersonalityEngine.requires_confirmation.
requires_confirmation(pol, command) ==
    \E d \in pol.require_confirmation_for : Contains(command, d)

\* PersonalityEngine.get_risk_level.
get_risk_level(pol, description) ==
    IF \E a \in pol.dangerous : Contains(LowerStr(description), LowerStr(a))
    THEN "dangerous"
    ELSE IF \E a \in pol.moderate :
                Contains(LowerStr(description), LowerStr(a))
         THEN "moderate"
         ELSE "safe"

\* f"execute shell: {command}"
ShellDescription(command) == <<"execute", "shell:">> \o command

\* Mutant of ShellGate: only the confirmation list is consulted.
ShellGate_ConfirmOnly(pol, command) ==
    IF requires_confirmation(pol, command) THEN "PermissionError" ELSE "run"

\* _execute_shell, lines 112-122: what the safety check decides.
ShellGate(pol, command) ==
    IF requires_confirmation(pol, command) THEN "PermissionError"
    ELSE IF /\ get_risk_level(pol, ShellDescription(command)) = "dangerous"
            /\ ~can_auto_execute(pol, "shell")
         THEN "PermissionError"
         ELSE "run"

\* A task as the scheduler callbacks create it: task_type shell and a command.
ShellTask(id, command) ==
    [NewTask(id, "NORMAL", <<>>) EXCEPT !.task_type = "shell",
                                        !.command = command]

InitShell ==
    /\ \E c \in Commands : tasks = <<ShellTask(1, c)>>
    /\ file = SavedFile(tasks)
    /\ pc = "idle"
    /\ cur = 0
    /\ max_retries \in 0..MaxRetriesCfg
    /\ nextId = 2
    /\ faults = 0
    /\ dispatched = {}
    /\ everFailed = {}
    /\ durable = tasks
    /\ policy \in Policies
    /\ spawned = {}
    /\ LoopStarted
    /\ SchedulerInit
    /\ decision = None
    /\ reflection = NoReflection
    /\ last = [op |-> "init", id |-> 0, ok |-> TRUE, exec |-> "none",
               resp |-> "none", steps |-> <<>>]

\* Lines 105-110: the command of the task, or the one the LLM generated (g)
\* when the task has none.
ShellCommand(t, g) == IF t.command = <<>> THEN g ELSE t.command

\* The task the loop holds.
Held == tasks[FirstIndex(tasks, cur)]

\* _execute_shell raised PermissionError before subprocess.run.
ShellDenied(g, ok) ==
    /\ pc = "exec"
    /\ ShellGate(policy, ShellCommand(Held, g)) = "PermissionError"
    /\ RecordFailed("PermissionError", ok)
    /\ UNCHANGED spawned

\* subprocess.run was called and the command exited with 0.
ShellRuns(g) ==
    /\ pc = "exec"
    /\ ShellGate(policy, ShellCommand(Held, g)) = "run"
    /\ spawned' = spawned \cup {ShellCommand(Held, g)}
    /\ RecordCompleted("out")

\* subprocess.run was called and the command failed or timed out.
ShellFails(g, ok) ==
    /\ pc = "exec"
    /\ ShellGate(policy, ShellCommand(Held, g)) = "run"
    /\ spawned' = spawned \cup {ShellCommand(Held, g)}
    /\ RecordFailed("RuntimeError", ok)

NextShell ==
    \/ Dispatch
    \/ \E g \in Commands : \E ok \in BOOLEAN : ShellDenied(g, ok)
    \/ \E g \in Commands : ShellRuns(g)
    \/ \E g \in Commands : \E ok \in BOOLEAN : ShellFails(g, ok)
    \/ ReflectReturns
    \/ ReflectRaises

SpecShell == InitShell /\ [][NextShell]_vars

(* ------------------------------------------- mark_completed on any queue *)

\* The readings of datetime.now(): the wall clock, any order.
MaxClock == 2

Clock == {ToString(k) : k \in 1..MaxClock}

\* Result strings a caller passes.
Results == {"out", "other"}

InitMark ==
    /\ tasks \in UNION {Queues(n) : n \in 0..MaxQueue}
    /\ file = SavedFile(tasks)
    /\ pc = "idle"
    /\ cur = 0
    /\ max_retries = 0
    /\ nextId = Len(tasks) + 1
    /\ faults = 0
    /\ dispatched = {}
    /\ everFailed = {}
    /\ durable = tasks
    /\ policy = DefaultPolicy
    /\ spawned = {}
    /\ LoopStarted
    /\ SchedulerInit
    /\ decision = None
    /\ reflection = NoReflection
    /\ last = [op |-> "init", id |-> 0, ok |-> TRUE, exec |-> "none",
               resp |-> "none", steps |-> <<>>]

\* A call mark_completed(id, result) while the clock reads ts.
MarkCompleted(id, result, ts, ok) ==
    /\ tasks' = mark_completed_at(tasks, id, result, ts)
    /\ SaveQueue(tasks', ok)
    /\ last' = [op |-> "mark_completed", id |-> id, ok |-> ok,
                exec |-> "none", resp |-> "none", steps |-> <<>>]
    /\ UNCHANGED <<subsystems, pc, cur, max_retries, policy, spawned, nextId, dispatched,
                   everFailed>>

NextMark ==
    \E id \in 1..(MaxQueue + 1) : \E result \in Results : \E ts \in Clock :
        \E ok \in BOOLEAN : MarkCompleted(id, result, ts, ok)

SpecMark == InitMark /\ [][NextMark]_vars

(* ------------------------------------------ clear_completed on any queue *)

\* The longest queue clear_completed is applied to in SpecClear.
MaxClear == 3

\* The tasks with this id a queue can hold, of any status; a completed one
\* has a result and a completed_at.
ClearTask(id) ==
    {[NewTask(id, "NORMAL", <<>>) EXCEPT
          !.status = st,
          !.result = IF st = "COMPLETED" THEN "out" ELSE None,
          !.completed_at = IF st = "COMPLETED" THEN "ts" ELSE None] :
        st \in TaskStatus}

\* self.tasks: the queues of n tasks with the ids 1..n.
RECURSIVE ClearQueues(_)
ClearQueues(n) ==
    IF n = 0 THEN {<<>>}
    ELSE {Append(q, t) : q \in ClearQueues(n - 1), t \in ClearTask(n)}

InitClear ==
    /\ tasks \in UNION {ClearQueues(n) : n \in 0..MaxClear}
    /\ file = SavedFile(tasks)
    /\ pc = "idle"
    /\ cur = 0
    /\ max_retries = 0
    /\ nextId = Len(tasks) + 1
    /\ faults = 0
    /\ dispatched = {}
    /\ everFailed = {}
    /\ durable = tasks
    /\ policy = DefaultPolicy
    /\ spawned = {}
    /\ LoopStarted
    /\ SchedulerInit
    /\ decision = None
    /\ reflection = NoReflection
    /\ last = [op |-> "init", id |-> 0, ok |-> TRUE, exec |-> "none",
               resp |-> "none", steps |-> <<>>]

NextClear == \E ok \in BOOLEAN : ClearCompleted(ok)

SpecClear == InitClear /\ [][NextClear]_vars

(* --------------------------------------------- ids drawn by Task.__init__ *)

\* Size of the id space: str(uuid.uuid4())[:8] is one of 16^8 strings, here
\* one of MaxUuid.
MaxUuid == 2

Uuids == 1..MaxUuid

\* add_task with a task built by Task(...): its id is whatever uuid4 drew;
\* nothing compares it with the ids in the queue. nextId counts the tasks
\* created so far.
AddDrawn(id, p, ok) ==
    /\ pc # "except"
    /\ nextId <= MaxIds
    /\ tasks' = Enqueue(tasks, <<NewTask(id, p, <<>>)>>)
    /\ SaveQueue(tasks', ok)
    /\ nextId' = nextId + 1
    /\ last' = [op |-> "add", id |-> id, ok |-> ok, exec |-> "none",
                resp |-> "none", steps |-> <<>>]
    /\ UNCHANGED <<subsystems, pc, cur, max_retries, policy, spawned, dispatched,
                   everFailed>>

NextIds ==
    \/ \E id \in Uuids : \E p \in Priorities : \E ok \in BOOLEAN :
           AddDrawn(id, p, ok)
    \/ Dispatch
    \/ ExecReturns
    \/ MarkCompletedRaises
    \/ \E ok \in BOOLEAN : HandleSaveError(ok)
    \/ \E ok \in BOOLEAN : ExecRaises(ok)
    \/ ReflectReturns
    \/ ReflectRaises
    \/ Restart

SpecIds == Init /\ [][NextIds]_vars

(* ------------------------------------------------ the scheduler's startup *)

\* Longest job list in the jobs file.
MaxJobs == 3

\* The jobs start() registers itself when proactive_behaviors is empty.
DefaultJobs ==
    {"health_check", "memory_consolidation", "evolution_check", "disk_monitor"}

\* The entries a jobs file can hold: add_dynamic_job writes a crontab
\* schedule and a TaskPriority value; a file edited by hand, or written by
\* another version, can hold a schedule that is no crontab expression or a
\* priority that is no TaskPriority value.
JobEntries ==
    [id : {"dynamic_a", "dynamic_b"},
     schedule : {"0 3 * * *", "every day"},
     priority : {"normal", "urgent"}]

JobLists == UNION {[1..n -> JobEntries] : n \in 0..MaxJobs}

\* CronTrigger.from_crontab(job["schedule"]) and TaskPriority(job["priority"])
\* both return; otherwise one of them raises ValueError.
Registers(job) ==
    /\ job.schedule = "0 3 * * *"
    /\ \E p \in TaskPriority : PriorityValue(p) = job.priority

\* The for loop of _load_custom_jobs inside its try: the jobs are added in
\* file order (replace_existing, so an id is held once) and the first entry
\* that raises ends the loop.
RECURSIVE RestoreJobs(_, _)
RestoreJobs(jobs, held) ==
    IF jobs = <<>> THEN held
    ELSE IF Registers(Head(jobs))
         THEN RestoreJobs(Tail(jobs), held \cup {Head(jobs).id})
         ELSE held

InitJobs ==
    /\ tasks = <<>>
    /\ file = [state |-> "absent", data |-> <<>>]
    /\ pc = "idle"
    /\ cur = 0
    /\ max_retries = 0
    /\ nextId = 1
    /\ faults = 0
    /\ dispatched = {}
    /\ everFailed = {}
    /\ durable = <<>>
    /\ policy = DefaultPolicy
    /\ spawned = {}
    /\ LoopStarted
    /\ schedule_file \in
           {[state |-> "absent", data |-> <<>>], [state |-> "torn", data |-> <<>>]}
           \cup {[state |-> "json", data |-> jobs] : jobs \in JobLists}
    /\ custom_jobs = <<>>
    /\ scheduler = {}
    /\ decision = None
    /\ reflection = NoReflection
    /\ last = [op |-> "init", id |-> 0, ok |-> TRUE, exec |-> "none",
               resp |-> "none", steps |-> <<>>]

\* ProactiveScheduler.start: the default jobs, then _load_custom_jobs, whose
\* except Exception swallows every error, then scheduler.start().
SchedulerStart ==
    /\ last.op = "init"
    /\ custom_jobs' = IF schedule_file.state = "json" THEN schedule_file.data
                      ELSE custom_jobs
    /\ scheduler' = IF schedule_file.state = "json"
                    THEN RestoreJobs(schedule_file.data, DefaultJobs)
                    ELSE DefaultJobs
    /\ last' = [op |-> "scheduler_start", id |-> 0, ok |-> TRUE,
                exec |-> "none", resp |-> "none", steps |-> <<>>]
    /\ UNCHANGED <<tasks, file, pc, cur, max_retries, nextId, faults,
                   dispatched, everFailed, durable, policy, spawned, running,
                   stopped, schedule_file, decision,
                   reflection>>

NextJobs == SchedulerStart

SpecJobs == InitJobs /\ [][NextJobs]_vars

(* ------------------------------------------------- start() and stop() *)

\* ExecutionLoop.__init__ followed by asyncio.create_task(loop.start()): the
\* flag is False and start() has not run its first line yet.
InitStop ==
    /\ tasks = <<>>
    /\ file = [state |-> "absent", data |-> <<>>]
    /\ pc = "scheduled"
    /\ cur = 0
    /\ max_retries \in 0..MaxRetriesCfg
    /\ nextId = 1
    /\ faults = 0
    /\ dispatched = {}
    /\ everFailed = {}
    /\ durable = <<>>
    /\ policy = DefaultPolicy
    /\ spawned = {}
    /\ running = FALSE
    /\ stopped = FALSE
    /\ SchedulerInit
    /\ decision = None
    /\ reflection = NoReflection
    /\ last = [op |-> "init", id |-> 0, ok |-> TRUE, exec |-> "none",
               resp |-> "none", steps |-> <<>>]

\* ExecutionLoop.start, line 48: the task created for start() runs for the
\* first time and sets the flag.
StartLoop ==
    /\ pc = "scheduled"
    /\ running' = TRUE
    /\ pc' = "idle"
    /\ last' = [op |-> "start", id |-> 0, ok |-> TRUE, exec |-> "none",
                resp |-> "none", steps |-> <<>>]
    /\ UNCHANGED <<tasks, file, cur, max_retries, nextId, faults, dispatched,
                   everFailed, durable, policy, spawned, stopped,
                   schedule_file, custom_jobs, scheduler, decision,
                   reflection>>

\* ExecutionLoop.stop, called from OpenClawBridge.stop while start() waits
\* at one of its awaits or has not run yet.
Stop ==
    /\ pc # "except"
    /\ ~stopped
    /\ running' = FALSE
    /\ stopped' = TRUE
    /\ last' = [op |-> "stop", id |-> 0, ok |-> TRUE, exec |-> "none",
                resp |-> "none", steps |-> <<>>]
    /\ UNCHANGED <<tasks, file, pc, cur, max_retries, nextId, faults,
                   dispatched, everFailed, durable, policy, spawned,
                   schedule_file, custom_jobs, scheduler, decision,
                   reflection>>

\* Line 51: the loop wakes from its sleep, reads the flag False and start()
\* returns.
LoopExits ==
    /\ pc = "idle"
    /\ ~running
    /\ pc' = "done"
    /\ last' = [op |-> "exit", id |-> 0, ok |-> TRUE, exec |-> "none",
                resp |-> "none", steps |-> <<>>]
    /\ UNCHANGED <<tasks, file, cur, max_retries, nextId, faults, dispatched,
                   everFailed, durable, policy, spawned, running, stopped,
                   schedule_file, custom_jobs, scheduler, decision,
                   reflection>>

\* The steps of the task that runs start().
LoopSteps ==
    \/ StartLoop
    \/ Dispatch
    \/ ExecReturns
    \/ MarkCompletedRaises
    \/ \E ok \in BOOLEAN : HandleSaveError(ok)
    \/ \E ok \in BOOLEAN : ExecRaises(ok)
    \/ ReflectReturns
    \/ ReflectRaises
    \/ LoopExits

NextStop ==
    \/ \E p \in Priorities : \E ok \in BOOLEAN : AddTask(p, <<>>, ok)
    \/ Stop
    \/ LoopSteps

\* The event loop runs the task of start() whenever it can take a step, and
\* every handler and hook ends (they have timeouts).
SpecStop == InitStop /\ [][NextStop]_vars /\ WF_vars(LoopSteps)

(* ------------------------------------------- the loop on one seeded plan *)

\* Step k names step m: one of its depends_on entries is the planner-local
\* id of step m.
Names(steps, k, m) ==
    \E x \in DOMAIN steps[k].depends_on : steps[k].depends_on[x] = steps[m].id

\* The step dependencies are acyclic: the steps can be put in an order in
\* which every step comes after the steps it names.
Acyclic(steps) ==
    \E f \in [DOMAIN steps -> DOMAIN steps] :
        /\ \A k, m \in DOMAIN steps : f[k] = f[m] => k = m
        /\ \A k, m \in DOMAIN steps : Names(steps, k, m) => f[m] < f[k]

\* One goal is seeded on the empty queue, with an acyclic plan as the LLM's
\* answer; every handler returns and every write of the queue file works.
NextRun ==
    \/ \E n \in 1..MaxSteps :
           \E steps \in StepLists(n) : \E p \in Priorities :
               /\ last.op = "init"
               /\ Acyclic(steps)
               /\ Plan(steps, p, TRUE)
    \/ Dispatch
    \/ ExecReturns

\* The event loop runs the task of start() and every handler returns.
SpecRun == Init /\ [][NextRun]_vars /\ WF_vars(Dispatch \/ ExecReturns)

(* ------------------------------------------------ DecisionEngine.evaluate *)

\* The autonomy configurations evaluate() is run under: those of the shell
\* handler, each with an autonomy level.
DecidePolicies ==
    {[require_confirmation_for |-> pol.require_confirmation_for,
      dangerous |-> pol.dangerous, moderate |-> pol.moderate,
      auto_execute_shell |-> pol.auto_execute_shell, level |-> lv] :
        pol \in Policies, lv \in {"full", "supervised"}}

\* PersonalityEngine.is_autonomous.
is_autonomous(pol) == pol.level = "full"

\* What the LLM answers: text that json.loads rejects, a JSON value that is
\* not an object, or a JSON object with an action and, or not (None), the
\* "reasoning" key.
Responses ==
    {[kind |-> "not_json", action |-> None, reasoning |-> None],
     [kind |-> "not_object", action |-> None, reasoning |-> None]}
    \cup [kind : {"object"}, action : {"execute", "ask_human", "refuse"},
          reasoning : {"brief reasoning", None}]

\* DecisionEngine.evaluate for the LLM answer response. The override of
\* lines 98-100 assigns decision["action"] and then appends to
\* decision["reasoning"]: the first raises TypeError on a value that is not
\* an object, the second KeyError on an object without that key; line 104
\* catches neither.
evaluate(pol, request, response) ==
    LET risk == get_risk_level(pol, request)
    IN IF requires_confirmation(pol, request)
       THEN [outcome |-> "returned", action |-> "ask_human",
             risk_level |-> "dangerous"]
       ELSE IF response.kind = "not_json"
       THEN [outcome |-> "returned", action |-> "execute", risk_level |-> risk]
       ELSE IF risk = "dangerous" /\ ~is_autonomous(pol)
       THEN IF response.kind = "not_object"
            THEN [outcome |-> "TypeError", action |-> None, risk_level |-> risk]
            ELSE IF response.reasoning = None
            THEN [outcome |-> "KeyError", action |-> None, risk_level |-> risk]
            ELSE [outcome |-> "returned", action |-> "ask_human",
                  risk_level |-> risk]
       ELSE [outcome |-> "returned", action |-> response.action,
             risk_level |-> risk]

InitDecide ==
    /\ tasks = <<>>
    /\ file = [state |-> "absent", data |-> <<>>]
    /\ pc = "idle"
    /\ cur = 0
    /\ max_retries = 0
    /\ nextId = 1
    /\ faults = 0
    /\ dispatched = {}
    /\ everFailed = {}
    /\ durable = <<>>
    /\ policy \in DecidePolicies
    /\ spawned = {}
    /\ LoopStarted
    /\ SchedulerInit
    /\ decision = None
    /\ reflection = NoReflection
    /\ last = [op |-> "init", id |-> 0, ok |-> TRUE, exec |-> "none",
               resp |-> "none", steps |-> <<>>]

\* A call evaluate(request) to which the LLM answers response.
Evaluate(request, response) ==
    /\ decision' = [request |-> request, response |-> response,
                    result |-> evaluate(policy, request, response)]
    /\ last' = [op |-> "evaluate", id |-> 0,
                ok |-> (evaluate(policy, request, response).outcome = "returned"),
                exec |-> "none", resp |-> response.kind, steps |-> <<>>]
    /\ UNCHANGED <<tasks, file, pc, cur, max_retries, nextId, faults,
                   dispatched, everFailed, durable, policy, spawned, running,
                   stopped, schedule_file, custom_jobs, scheduler,
                   reflection>>

NextDecide ==
    \E request \in Commands : \E response \in Responses :
        Evaluate(request, response)

SpecDecide == InitDecide /\ [][NextDecide]_vars

(* -------------------------------------------- the file handler and the loop *)

\* The "operation" of the action the LLM produces: the four the handler
\* knows (a missing key counts as "read") and one it does not.
FileOperations == {"read", "write", "create", "delete", "move"}

\* What _execute_file returns for an operation when the file system call
\* works; lines 182-183 return a string for every other operation.
FileResult(operation) ==
    CASE operation = "read" -> "content"
      [] operation \in {"write", "create"} -> "File written"
      [] operation = "delete" -> "File deleted"
      [] OTHER -> "Unknown file operation"

\* f"rm {path}"
DeleteCommand == <<"rm", "ls">>

\* The autonomy configurations the file handler is run under: they differ in
\* the confirmation list only.
FilePolicies ==
    {pol \in Policies :
        pol.dangerous = {} /\ pol.moderate = {} /\ pol.auto_execute_shell}

\* A task of type file, as plan() creates it from a step of that type.
FileTask(id) == [NewTask(id, "NORMAL", <<>>) EXCEPT !.task_type = "file"]

InitFile ==
    /\ tasks = <<FileTask(1)>>
    /\ file = SavedFile(tasks)
    /\ pc = "idle"
    /\ cur = 0
    /\ max_retries \in 0..MaxRetriesCfg
    /\ nextId = 2
    /\ faults = 0
    /\ dispatched = {}
    /\ everFailed = {}
    /\ durable = tasks
    /\ policy \in FilePolicies
    /\ spawned = {}
    /\ LoopStarted
    /\ SchedulerInit
    /\ decision = None
    /\ reflection = NoReflection
    /\ last = [op |-> "init", id |-> 0, ok |-> TRUE, exec |-> "none",
               resp |-> "none", steps |-> <<>>]

\* The branch of lines 169-183 for operation ran to its return.
FileReturns(operation) ==
    /\ pc = "exec"
    /\ operation = "delete" => ~requires_confirmation(policy, DeleteCommand)
    /\ RecordCompleted(FileResult(operation))
    /\ UNCHANGED spawned

\* The handler raised: the answer was not JSON (ValueError, line 185), the
\* delete needs confirmation (PermissionError, line 179), or open, makedirs
\* or remove raised OSError.
FileRaises(operation, error, ok) ==
    /\ pc = "exec"
    /\ \/ error = "ValueError" /\ operation = "read"
       \/ /\ error = "PermissionError"
          /\ operation = "delete"
          /\ requires_confirmation(policy, DeleteCommand)
       \/ /\ error = "OSError"
          /\ operation \in {"read", "write", "create", "delete"}
          /\ operation = "delete" => ~requires_confirmation(policy, DeleteCommand)
    /\ RecordFailed(error, ok)
    /\ UNCHANGED spawned

NextFile ==
    \/ Dispatch
    \/ \E operation \in FileOperations : FileReturns(operation)
    \/ \E operation \in FileOperations :
           \E error \in {"ValueError", "PermissionError", "OSError"} :
               \E ok \in BOOLEAN : FileRaises(operation, error, ok)
    \/ ReflectReturns
    \/ ReflectRaises

SpecFile == InitFile /\ [][NextFile]_vars

(* ------------------------------------------- _load_queue on any file *)

\* Longest list in the queue file at startup.
MaxLoad == 3

\* The dict d without the key k.
Without(d, k) == [x \in DOMAIN d \ {k} |-> d[x]]

\* The entries a queue file can hold for the task with this id: the dict
\* to_dict writes, that dict without "goal" or without "id", with a status
\* or a priority string of no enum member, and the dict of the two required
\* keys alone.
LoadEntries(id) ==
    LET full == to_dict(NewTask(id, "NORMAL", <<>>))
    IN {full, Without(full, "goal"), Without(full, "id"),
        [full EXCEPT !.status = "done"], [full EXCEPT !.priority = "urgent"],
        [id |-> id, goal |-> "goal"]}

RECURSIVE LoadLists(_)
LoadLists(n) ==
    IF n = 0 THEN {<<>>}
    ELSE {Append(l, e) : l \in LoadLists(n - 1), e \in LoadEntries(n)}

\* The contents of the queue file at startup: no file, text that is not
\* JSON, a JSON value that is not an array (a number), or an array.
LoadFiles ==
    {[state |-> st, data |-> <<>>] : st \in {"absent", "torn", "not_list"}}
    \cup {[state |-> "json", data |-> l] :
              l \in UNION {LoadLists(n) : n \in 0..MaxLoad}}

\* What Task.from_dict raises on the dict d ("none": it returns), in the
\* order of its statements: data["goal"], TaskPriority(...), data["id"],
\* TaskStatus(...).
FromDictError(d) ==
    IF "goal" \notin DOMAIN d THEN "KeyError"
    ELSE IF \A p \in TaskPriority : PriorityValue(p) # Get(d, "priority", "normal")
    THEN "ValueError"
    ELSE IF "id" \notin DOMAIN d THEN "KeyError"
    ELSE IF \A st \in TaskStatus : StatusValue(st) # Get(d, "status", "pending")
    THEN "ValueError"
    ELSE "none"

\* What the list comprehension of line 128 raises: the error of the first
\* entry from_dict rejects.
RECURSIVE LoadError(_)
LoadError(data) ==
    IF data = <<>> THEN "none"
    ELSE IF FromDictError(Head(data)) # "none" THEN FromDictError(Head(data))
         ELSE LoadError(Tail(data))

\* What _load_queue raises on the file f: line 131 catches JSONDecodeError
\* and KeyError; iterating a number raises TypeError.
LoadRaises(f) ==
    CASE f.state = "not_list" -> "TypeError"
      [] f.state = "json" /\ LoadError(f.data) = "ValueError" -> "ValueError"
      [] OTHER -> "none"

\* self.tasks after _load_queue returned.
LoadedQueue(f) ==
    IF f.state = "json" /\ LoadError(f.data) = "none" THEN Deserialize(f.data)
    ELSE <<>>

InitLoad ==
    /\ tasks = <<>>
    /\ file \in LoadFiles
    /\ pc = "idle"
    /\ cur = 0
    /\ max_retries = 0
    /\ nextId = 1
    /\ faults = 0
    /\ dispatched = {}
    /\ everFailed = {}
    /\ durable = <<>>
    /\ policy = DefaultPolicy
    /\ spawned = {}
    /\ LoopStarted
    /\ SchedulerInit
    /\ decision = None
    /\ reflection = NoReflection
    /\ last = [op |-> "init", id |-> 0, ok |-> TRUE, exec |-> "none",
               resp |-> "none", steps |-> <<>>]

\* GoalPlanner.__init__: self.tasks = [] and then _load_queue, which returns
\* or raises out of the constructor.
Load ==
    /\ last.op = "init"
    /\ tasks' = IF LoadRaises(file) = "none" THEN LoadedQueue(file) ELSE <<>>
    /\ pc' = IF LoadRaises(file) = "none" THEN "idle" ELSE "dead"
    /\ last' = [op |-> "load", id |-> 0, ok |-> (LoadRaises(file) = "none"),
                exec |-> "none", resp |-> LoadRaises(file), steps |-> <<>>]
    /\ UNCHANGED <<subsystems, file, cur, max_retries, nextId, faults,
                   dispatched, everFailed, durable, policy, spawned>>

NextLoad == Load

SpecLoad == InitLoad /\ [][NextLoad]_vars

(* ------------------------------------------- the reflection hook and the loop *)

\* The dicts reflect() works with after parsing: should_escalate, the
\* new_strategy (empty: <<>>) and the escalation_reason.
Reflections ==
    [should_escalate : BOOLEAN,
     new_strategy : {<<>>, <<"ls">>, <<"rm">>},
     escalation_reason : {<<>>, <<"ls">>}]

\* Mutant of reflect_task: the new strategy is written also when the task is
\* escalated.
reflect_task_Always(t, r) ==
    IF r.new_strategy # <<>> THEN [t EXCEPT !.command = r.new_strategy]
    ELSE IF r.should_escalate
         THEN [t EXCEPT !.task_type = "api",
                        !.command = <<"Escalated:">> \o r.escalation_reason]
         ELSE t

\* Lines 85-94 of reflect(): what it assigns on the task object.
reflect_task(t, r) ==
    IF r.should_escalate
    THEN [t EXCEPT !.task_type = "api",
                   !.command = <<"Escalated:">> \o r.escalation_reason]
    ELSE IF r.new_strategy # <<>> THEN [t EXCEPT !.command = r.new_strategy]
         ELSE t

\* Two shell tasks of the same priority; the second never fails.
InitReflect ==
    /\ \E c \in Commands : tasks = <<ShellTask(1, c), ShellTask(2, <<"ls">>)>>
    /\ file = SavedFile(tasks)
    /\ pc = "idle"
    /\ cur = 0
    /\ max_retries \in 0..MaxRetriesCfg
    /\ nextId = 3
    /\ faults = 0
    /\ dispatched = {}
    /\ everFailed = {}
    /\ durable = tasks
    /\ policy \in {pol \in FilePolicies : pol.require_confirmation_for = {}}
    /\ spawned = {}
    /\ LoopStarted
    /\ SchedulerInit
    /\ decision = None
    /\ reflection = NoReflection
    /\ last = [op |-> "init", id |-> 0, ok |-> TRUE, exec |-> "none",
               resp |-> "none", steps |-> <<>>]

\* Line 76 with SelfReflection.reflect as the hook: it parsed r, changed the
\* task object the loop holds and returned; it does not save the queue.
Reflect(r) ==
    /\ pc = "reflect"
    /\ tasks' = [tasks EXCEPT ![FirstIndex(tasks, cur)] = reflect_task(@, r)]
    /\ reflection' = [task_id |-> cur, should_escalate |-> r.should_escalate,
                      new_strategy |-> r.new_strategy,
                      escalation_reason |-> r.escalation_reason]
    /\ pc' = "idle"
    /\ cur' = 0
    /\ last' = [op |-> "reflect", id |-> cur, ok |-> TRUE, exec |-> "none",
                resp |-> "none", steps |-> <<>>]
    /\ UNCHANGED <<file, durable, max_retries, policy, spawned, nextId,
                   faults, dispatched, everFailed, running, stopped,
                   schedule_file, custom_jobs, scheduler, decision>>

\* _execute_api returned the LLM's answer.
ApiReturns ==
    /\ pc = "exec"
    /\ Held.task_type = "api"
    /\ RecordCompleted("out")
    /\ UNCHANGED spawned

NextReflect ==
    \/ Dispatch
    \/ \E g \in Commands :
           pc = "exec" /\ Held.task_type = "shell" /\ ShellRuns(g)
    \/ \E g \in Commands : \E ok \in BOOLEAN :
           /\ pc = "exec" /\ Held.task_type = "shell" /\ Held.id = 1
           /\ ShellFails(g, ok)
    \/ ApiReturns
    \/ \E r \in Reflections : Reflect(r)

SpecReflect == InitReflect /\ [][NextReflect]_vars

(* ------------------------------------------- a restart during an execution *)

\* The process ends while the handler of a task runs, at a moment when the
\* queue file already shows that task as in_progress (a save made from another
\* coroutine wrote it), and starts again on the same file.
RestartInFlight ==
    /\ pc = "exec"
    /\ file.state = "json"
    /\ \E k \in DOMAIN file.data :
           file.data[k].id = cur /\ file.data[k].status = StatusValue("IN_PROGRESS")
    /\ Restart

\* One step of ExecutionLoop.start: a dispatch, the return or the exception of
\* a handler, the return of the reflection callback.
LoopStep ==
    \/ Dispatch
    \/ ExecReturns
    \/ ExecRaises(TRUE)
    \/ ReflectReturns

\* Tasks are added from other coroutines while the loop runs; every write of
\* the queue file works.
NextResume ==
    \/ \E p \in Priorities : AddTask(p, <<>>, TRUE)
    \/ Dispatch
    \/ ExecReturns
    \/ ExecRaises(TRUE)
    \/ ReflectReturns
    \/ RestartInFlight

\* The event loop runs the task of start() and every handler and callback
\* returns or raises.
SpecResume == Init /\ [][NextResume]_vars /\ WF_vars(LoopStep)

(* ------------------------------------- the loop and failing collaborators *)

\* One step of ExecutionLoop.start where the reflection callback and the
\* write inside mark_failed can raise.
SurviveStep ==
    \/ Dispatch
    \/ ExecReturns
    \/ \E ok \in BOOLEAN : ExecRaises(ok)
    \/ ReflectReturns
    \/ ReflectRaises

\* Tasks are added while the loop runs. OpenClawBridge.start creates the task
\* of start() once and nothing awaits or restarts it.
NextSurvive ==
    \/ \E p \in Priorities : AddTask(p, <<>>, TRUE)
    \/ Dispatch
    \/ ExecReturns
    \/ \E ok \in BOOLEAN : ExecRaises(ok)
    \/ ReflectReturns
    \/ ReflectRaises

\* The event loop runs the task of start() while it has not ended, and every
\* handler and callback returns or raises.
SpecSurvive == Init /\ [][NextSurvive]_vars /\ WF_vars(SurviveStep)

(* -------------------------------------------- the web handler and the loop *)

\* A task of type web; its command is the URL, or empty.
WebTask(id, url) ==
    [NewTask(id, "NORMAL", <<>>) EXCEPT !.task_type = "web", !.command = url]

\* What the LLM extracts from the action when the task has no URL: a URL, or
\* 'search: query'.
WebAnswers == Commands \cup {<<"search:">> \o c : c \in Commands}

\* Lines 190-194: the URL of the task, or the LLM's answer (g).
WebUrl(t, g) == IF t.command = <<>> THEN g ELSE t.command

\* Lines 196-200: the curl command line built around the URL or the query.
WebCommand(url) ==
    IF url # <<>> /\ url[1] = "search:"
    THEN <<"curl", "-s", "duckduckgo">> \o Tail(url) \o <<"|", "head">>
    ELSE <<"curl", "-sL">> \o url \o <<"|", "head">>

\* The autonomy configurations of this specification: any confirmation list,
\* the shell switch on or off, no risk list.
WebPolicies == {pol \in Policies : pol.dangerous = {} /\ pol.moderate = {}}

InitWeb ==
    /\ \E c \in Commands : tasks \in {<<ShellTask(1, c)>>, <<WebTask(1, c)>>}
    /\ file = SavedFile(tasks)
    /\ pc = "idle"
    /\ cur = 0
    /\ max_retries \in 0..MaxRetriesCfg
    /\ nextId = 2
    /\ faults = 0
    /\ dispatched = {}
    /\ everFailed = {}
    /\ durable = tasks
    /\ policy \in WebPolicies
    /\ spawned = {}
    /\ LoopStarted
    /\ SchedulerInit
    /\ decision = None
    /\ reflection = NoReflection
    /\ last = [op |-> "init", id |-> 0, ok |-> TRUE, exec |-> "none",
               resp |-> "none", steps |-> <<>>]

\* _execute_web, lines 202-205: subprocess.run was called with the command
\* line and returned; the exit status is not looked at.
WebRuns(g) ==
    /\ pc = "exec"
    /\ Held.task_type = "web"
    /\ spawned' = spawned \cup {WebCommand(WebUrl(Held, g))}
    /\ RecordCompleted("out")

\* subprocess.run was called and raised TimeoutExpired after 30 seconds.
WebTimesOut(g, ok) ==
    /\ pc = "exec"
    /\ Held.task_type = "web"
    /\ spawned' = spawned \cup {WebCommand(WebUrl(Held, g))}
    /\ RecordFailed("TimeoutExpired", ok)

NextWeb ==
    \/ Dispatch
    \/ \E g \in Commands : \E ok \in BOOLEAN :
           pc = "exec" /\ Held.task_type = "shell" /\ ShellDenied(g, ok)
    \/ \E g \in Commands :
           pc = "exec" /\ Held.task_type = "shell" /\ ShellRuns(g)
    \/ \E g \in Commands : \E ok \in BOOLEAN :
           pc = "exec" /\ Held.task_type = "shell" /\ ShellFails(g, ok)
    \/ \E g \in WebAnswers : WebRuns(g)
    \/ \E g \in WebAnswers : \E ok \in BOOLEAN : WebTimesOut(g, ok)
    \/ ReflectReturns
    \/ ReflectRaises

SpecWeb == InitWeb /\ [][NextWeb]_vars

(* ------------------------------------------------ the scheduler's dynamic jobs *)

\* The names add_dynamic_job is called with.
JobNames == {"a", "A", "b"}

\* f"dynamic_{name.lower().replace(' ', '_')}"
JobId(name) == IF name \in {"a", "A"} THEN "dynamic_a" ELSE "dynamic_b"

\* start() has run in this process: the cron engine holds the default jobs.
SchedulerStarted == DefaultJobs \subseteq scheduler

\* The entries of the list l whose id is not job_id, in order.
JobsWithout(l, job_id) == SelectSeq(l, LAMBDA j : j.id # job_id)

\* _save_custom_jobs: the whole list is written.
SavedJobs(l) == [state |-> "json", data |-> l]

\* ProactiveScheduler.start in a process where it has not run yet: the default
\* jobs are registered next to the ones the engine holds already, then
\* _load_custom_jobs replaces custom_jobs by the list of the file and
\* registers its entries.
StartScheduler ==
    /\ ~SchedulerStarted
    /\ custom_jobs' = IF schedule_file.state = "json" THEN schedule_file.data
                      ELSE custom_jobs
    /\ scheduler' = IF schedule_file.state = "json"
                    THEN RestoreJobs(schedule_file.data, scheduler \cup DefaultJobs)
                    ELSE scheduler \cup DefaultJobs
    /\ last' = [op |-> "scheduler_start", id |-> 0, ok |-> TRUE,
                exec |-> "none", resp |-> "none", steps |-> <<>>]
    /\ UNCHANGED <<tasks, file, pc, cur, max_retries, nextId, faults,
                   dispatched, everFailed, durable, policy, spawned, running,
                   stopped, schedule_file, decision, reflection>>

\* add_dynamic_job(name, goal, schedule, priority) with a crontab schedule:
\* the job is registered under its id (replace_existing), an entry is
\* appended to custom_jobs and the list is saved.
AddDynamicJob(name, p) ==
    /\ Len(custom_jobs) < MaxJobs
    /\ scheduler' = scheduler \cup {JobId(name)}
    /\ custom_jobs' = Append(custom_jobs,
                             [id |-> JobId(name), schedule |-> "0 3 * * *",
                              priority |-> PriorityValue(p)])
    /\ schedule_file' = SavedJobs(custom_jobs')
    /\ last' = [op |-> "add_dynamic_job", id |-> 0, ok |-> TRUE,
                exec |-> "none", resp |-> JobId(name), steps |-> <<>>]
    /\ UNCHANGED <<tasks, file, pc, cur, max_retries, nextId, faults,
                   dispatched, everFailed, durable, policy, spawned, running,
                   stopped, decision, reflection>>

\* remove_dynamic_job(job_id): remove_job raises JobLookupError for an id the
\* engine does not hold and the except branch leaves everything as it is;
\* otherwise the job is unregistered, its entries leave custom_jobs and the
\* list is saved.
RemoveDynamicJob(job_id) ==
    /\ IF job_id \in scheduler
       THEN /\ scheduler' = scheduler \ {job_id}
            /\ custom_jobs' = JobsWithout(custom_jobs, job_id)
            /\ schedule_file' = SavedJobs(custom_jobs')
       ELSE UNCHANGED <<scheduler, custom_jobs, schedule_file>>
    /\ last' = [op |-> "remove_dynamic_job", id |-> 0,
                ok |-> (job_id \in scheduler),
                exec |-> "none", resp |-> job_id, steps |-> <<>>]
    /\ UNCHANGED <<tasks, file, pc, cur, max_retries, nextId, faults,
                   dispatched, everFailed, durable, policy, spawned, running,
                   stopped, decision, reflection>>

\* The process ends and a new one constructs its ProactiveScheduler: no
\* custom job, an empty cron engine, the jobs file as it was left.
RestartScheduler ==
    /\ SchedulerStarted
    /\ custom_jobs' = <<>>
    /\ scheduler' = {}
    /\ last' = [op |-> "restart", id |-> 0, ok |-> TRUE, exec |-> "none",
                resp |-> "none", steps |-> <<>>]
    /\ UNCHANGED <<tasks, file, pc, cur, max_retries, nextId, faults,
                   dispatched, everFailed, durable, policy, spawned, running,
                   stopped, schedule_file, decision, reflection>>

NextDynamic ==
    \/ StartScheduler
    \/ \E name \in JobNames : \E p \in Priorities : AddDynamicJob(name, p)
    \/ \E job_id \in {"dynamic_a", "dynamic_b"} : RemoveDynamicJob(job_id)
    \/ RestartScheduler

SpecDynamic == Init /\ [][NextDynamic]_vars

(* --------------------------------------------- the loop on a finite workload *)

\* Tasks are added, with or without dependencies, while the loop runs; every
\* handler returns or raises, the reflection callback returns or raises, and
\* every write of the queue file works.
NextQuiesce ==
    \/ \E p \in Priorities : \E deps \in DepLists(1..(nextId - 1)) :
           AddTask(p, deps, TRUE)
    \/ Dispatch
    \/ ExecReturns
    \/ ExecRaises(TRUE)
    \/ ReflectReturns
    \/ ReflectRaises

\* The event loop runs the task of start() while it has not ended, and every
\* handler and callback ends.
SpecQuiesce ==
    Init /\ [][NextQuiesce]_vars
         /\ WF_vars(Dispatch \/ ExecReturns \/ ExecRaises(TRUE)
                    \/ ReflectReturns \/ ReflectRaises)

(* ------------------------------------------------ vocabulary of the claims *)

\* The tasks of a queue as a set of indices.
Idx(q) == 1..Len(q)

\* Every id in t.depends_on is the id of a completed task of q.
AllDepsCompleted(q, t) ==
    \A k \in DOMAIN t.depends_on :
        \E j \in Idx(q) : q[j].id = t.depends_on[k] /\ q[j].status = "COMPLETED"

\* Runnable as the data model defines it: pending with all dependencies completed.
Runnable(q, i) == q[i].status = "PENDING" /\ AllDepsCompleted(q, q[i])

\* The task with this id is in the queue q with this status.
HasStatus(q, id, st) == \E i \in Idx(q) : q[i].id = id /\ q[i].status = st

\* The queue file holds the task with this id with this status value.
OnFile(id, value) ==
    /\ file.state = "json"
    /\ \E k \in DOMAIN file.data :
           file.data[k].id = id /\ file.data[k].status = value

(* --------------------------------------------------------------------- C1 *)

\* C1: the dispatcher never sets a task to in_progress unless, at that moment,
\* every id in its depends_on is the id of a task in the queue whose status is
\* completed; also when the dependent task has the higher priority.
C1_DispatchOnlyWhenDepsCompleted ==
    [][\A j \in Idx(tasks') :
          (/\ tasks'[j].status = "IN_PROGRESS"
           /\ last'.op # "restart"
           /\ ~HasStatus(tasks, tasks'[j].id, "IN_PROGRESS"))
          => AllDepsCompleted(tasks, tasks'[j])]_vars

\* A critical task that depends on a normal task has just been dispatched,
\* after the normal task completed.
C1_Witness ==
    /\ last.op = "dispatch"
    /\ \E i, j \in Idx(tasks) :
          /\ tasks[i].id = last.id
          /\ tasks[i].status = "IN_PROGRESS"
          /\ tasks[i].priority = "CRITICAL"
          /\ tasks[i].depends_on = <<tasks[j].id>>
          /\ tasks[j].priority = "NORMAL"
          /\ tasks[j].status = "COMPLETED"

(* --------------------------------------------------------------------- C2 *)

\* C2: in every reachable state, for every task of the queue and every
\* configured non-negative max_retries, len(attempts) <= max_retries.
C2_AttemptsWithinBudget ==
    \A i \in Idx(tasks) : Len(tasks[i].attempts) <= max_retries

(* --------------------------------------------------------------------- C3 *)

\* What mark_failed leaves: failed when the attempts reach max_retries exactly,
\* pending while they are below it.
MarkFailedOutcome ==
    last.op = "mark_failed" =>
        \A i \in Idx(tasks) :
            tasks[i].id = last.id =>
                /\ Len(tasks[i].attempts) = max_retries => tasks[i].status = "FAILED"
                /\ Len(tasks[i].attempts) < max_retries => tasks[i].status = "PENDING"

\* The failed task with index i stays failed and is not what get_next_task returns.
StaysFailed(i) ==
    \A j \in Idx(tasks') :
        tasks'[j].id = tasks[i].id =>
            tasks'[j].status = "FAILED" /\ get_next_task(tasks') # j

\* C3 as stated: the mark_failed call that brings len(attempts) to max_retries
\* sets failed, every earlier one sets pending, and a failed task is never
\* returned by get_next_task, never dispatched and never pending again.
C3_FailedIsFinal ==
    [][/\ MarkFailedOutcome'
       /\ \A i \in Idx(tasks) : tasks[i].status = "FAILED" => StaysFailed(i)]_vars

\* C3 amended: as C3, but a failed task stays failed while the process runs,
\* and across a restart when the failed status had reached the queue file.
C3_FailedIsFinalOncePersisted ==
    [][/\ MarkFailedOutcome'
       /\ \A i \in Idx(tasks) :
             (/\ tasks[i].status = "FAILED"
              /\ (last'.op # "restart" \/ OnFile(tasks[i].id, "failed")))
             => StaysFailed(i)]_vars

\* A task failed twice with max_retries = 2 (pending after the first failure,
\* failed after the second) and the loop went on to dispatch another task.
C3_Witness ==
    /\ max_retries = 2
    /\ last.op = "dispatch"
    /\ \E i \in Idx(tasks) :
          /\ tasks[i].status = "FAILED"
          /\ Len(tasks[i].attempts) = 2
          /\ tasks[i].id # last.id

(* --------------------------------------------------------------------- C4 *)

\* The statuses C4 calls terminal.
TerminalStatus == {"COMPLETED", "FAILED", "CANCELLED"}

\* C4: once a task's status is completed, failed or cancelled it never changes
\* again under the store operations and the dispatcher steps; the only moves
\* are pending -> in_progress and in_progress -> pending, completed or failed.
C4_TerminalStatusNeverChanges ==
    [][last'.op # "restart" =>
          \A i \in Idx(tasks) : \A j \in Idx(tasks') :
              (tasks'[j].id = tasks[i].id /\ tasks'[j].status # tasks[i].status)
              => /\ tasks[i].status \notin TerminalStatus
                 /\ tasks[i].status = "PENDING" => tasks'[j].status = "IN_PROGRESS"
                 /\ tasks[i].status = "IN_PROGRESS" =>
                        tasks'[j].status \in {"PENDING", "COMPLETED", "FAILED"}]_vars

(* --------------------------------------------------------------------- C5 *)

\* C5: at every moment at most one task of the queue has status in_progress.
C5_AtMostOneInProgress ==
    Cardinality({i \in Idx(tasks) : tasks[i].status = "IN_PROGRESS"}) <= 1

(* --------------------------------------------------------------------- C6 *)

\* critical > high > normal > background.
Rank(p) ==
    CASE p = "CRITICAL" -> 4
      [] p = "HIGH" -> 3
      [] p = "NORMAL" -> 2
      [] p = "BACKGROUND" -> 1

\* C6: get_next_task returns None exactly when no task is runnable; otherwise
\* it returns a runnable task and no runnable task has a strictly higher
\* priority.
C6_NextIsHighestRunnable ==
    last.op = "get_next_task" =>
        IF \E i \in Idx(tasks) : Runnable(tasks, i)
        THEN \E r \in Idx(tasks) :
                /\ tasks[r].id = last.id
                /\ Runnable(tasks, r)
                /\ \A i \in Idx(tasks) :
                       Runnable(tasks, i) =>
                           Rank(tasks[i].priority) <= Rank(tasks[r].priority)
        ELSE last.id = 0

\* T1 normal then T2 critical, both pending without dependencies:
\* get_next_task returned T2.
C6_Witness ==
    /\ last.op = "get_next_task"
    /\ Len(tasks) = 2
    /\ tasks[1].priority = "NORMAL" /\ tasks[1].status = "PENDING"
    /\ tasks[1].depends_on = <<>>
    /\ tasks[2].priority = "CRITICAL" /\ tasks[2].status = "PENDING"
    /\ tasks[2].depends_on = <<>>
    /\ last.id = tasks[2].id

(* --------------------------------------------------------------------- C7 *)

\* Neither task names the other in its depends_on.
NoDependencyBetween(a, b) ==
    /\ \A k \in DOMAIN a.depends_on : a.depends_on[k] # b.id
    /\ \A k \in DOMAIN b.depends_on : b.depends_on[k] # a.id

\* C7 as stated: when b is dispatched, every task a of the same priority that
\* was inserted before b and has no dependency between it and b has been
\* dispatched before.
C7_FifoWithinPriority ==
    last.op = "dispatch" =>
        \A i, j \in Idx(tasks) :
            (/\ i < j
             /\ tasks[j].id = last.id
             /\ tasks[i].priority = tasks[j].priority
             /\ NoDependencyBetween(tasks[i], tasks[j]))
            => tasks[i].id \in dispatched

\* C7 amended: b is not dispatched while a task a of the same priority that
\* was inserted before b is runnable, also when a is pending again after a
\* failed attempt; so an a without dependencies is dispatched before b.
C7_FifoAmongRunnable ==
    last.op = "dispatch" =>
        \A i, j \in Idx(tasks) :
            (/\ i < j
             /\ tasks[j].id = last.id
             /\ tasks[i].priority = tasks[j].priority)
            => /\ ~Runnable(tasks, i)
               /\ tasks[i].depends_on = <<>> => tasks[i].id \in dispatched

\* a failed once and is pending again at its position; the loop has just
\* dispatched it a second time while the later b of the same priority is
\* runnable and was never dispatched.
C7_Witness ==
    /\ last.op = "dispatch"
    /\ \E i, j \in Idx(tasks) :
          /\ i < j
          /\ tasks[i].id = last.id
          /\ Len(tasks[i].attempts) = 1
          /\ tasks[i].status = "IN_PROGRESS"
          /\ tasks[j].priority = tasks[i].priority
          /\ Runnable(tasks, j)
          /\ tasks[j].id \notin dispatched

(* --------------------------------------------------------------------- C8 *)

\* The operations that end with _save_queue.
MutatingOps == {"add", "plan", "mark_completed", "mark_failed", "clear"}

PendingCount(q) == Cardinality({i \in Idx(q) : q[i].status = "PENDING"})

\* C8: serialize then deserialize is the identity on the queue, and after each
\* of add, plan, mark_completed, mark_failed and clear_completed returned,
\* loading the queue file yields exactly the in-memory queue, with the same
\* pending count and the same next task.
C8_ReloadEqualsMemory ==
    /\ Deserialize(Serialize(tasks)) = tasks
    /\ (last.op \in MutatingOps /\ last.ok) =>
           /\ file.state = "json"
           /\ LoadQueue(file) = tasks
           /\ PendingCount(LoadQueue(file)) = PendingCount(tasks)
           /\ get_next_task(LoadQueue(file)) = get_next_task(tasks)

\* mark_failed has just returned for a task that is pending again with one
\* recorded attempt, in a queue of at least two tasks.
C8_Witness ==
    /\ last.op = "mark_failed" /\ last.ok
    /\ Len(tasks) >= 2
    /\ \E i \in Idx(tasks) :
          /\ tasks[i].id = last.id
          /\ tasks[i].status = "PENDING"
          /\ Len(tasks[i].attempts) = 1
    /\ LoadQueue(file) = tasks

(* --------------------------------------------------------------------- C9 *)

HeldBack(q, i) == q[i].status = "PENDING" /\ get_next_task(q) # i

\* C10 as stated: once the single dependency of a task has been set to failed,
\* the task is pending and not returned by get_next_task in every later state.
C10_BlockedByFailedDependency ==
    \A i \in Idx(tasks) :
        (Len(tasks[i].depends_on) = 1 /\ tasks[i].depends_on[1] \in everFailed)
        => HeldBack(tasks, i)

\* C10 amended: a task whose single dependency is failed is pending and not
\* returned by get_next_task, and this stays so while the process runs, and
\* across a restart when the dependency's failed status had reached the file.
C10_BlockedWhileDependencyFailed ==
    [][\A i \in Idx(tasks) :
          (/\ Len(tasks[i].depends_on) = 1
           /\ HasStatus(tasks, tasks[i].depends_on[1], "FAILED")
           /\ (last'.op # "restart" \/ OnFile(tasks[i].depends_on[1], "failed")))
          => /\ HeldBack(tasks, i)
             /\ \A j \in Idx(tasks') :
                    tasks'[j].id = tasks[i].id =>
                        /\ HeldBack(tasks', j)
                        /\ HasStatus(tasks', tasks[i].depends_on[1], "FAILED")]_vars

\* After a restart the dependency is failed, the dependent task is pending and
\* get_next_task returns nothing.
C10_Witness ==
    /\ last.op = "restart"
    /\ get_next_task(tasks) = 0
    /\ \E i, j \in Idx(tasks) :
          /\ tasks[j].status = "FAILED"
          /\ tasks[i].depends_on = <<tasks[j].id>>
          /\ tasks[i].status = "PENDING"

(* -------------------------------------------------------------------- C11 *)

\* C11: a task enqueued by add_task or plan while the loop executes a task T
\* goes to the end of the queue and changes no existing task, T stays
\* in_progress and held by the loop also when the new task has the higher
\* priority, and the loop dispatches only when it holds no task.
C11_EnqueueDoesNotPreempt ==
    [][/\ (pc = "exec" /\ last'.op \in {"add", "plan"}) =>
              /\ Len(tasks') > Len(tasks)
              /\ SubSeq(tasks', 1, Len(tasks)) = tasks
              /\ pc' = "exec" /\ cur' = cur
              /\ HasStatus(tasks', cur, "IN_PROGRESS")
       /\ last'.op = "dispatch" =>
              /\ cur = 0
              /\ cur' = last'.id
              /\ HasStatus(tasks', cur', "IN_PROGRESS")
       /\ (pc = "exec" /\ pc' = "idle" /\ last'.op # "restart") =>
              last'.op \in {"mark_completed", "mark_failed"} /\ last'.id = cur]_vars

\* While a normal task is in_progress a callback has just added a critical
\* task, which is the last of the queue.
C11_Witness ==
    /\ pc = "exec"
    /\ last.op = "add" /\ last.ok
    /\ tasks[Len(tasks)].id = last.id
    /\ tasks[Len(tasks)].priority = "CRITICAL"
    /\ \E i \in Idx(tasks) :
          /\ tasks[i].id = cur
          /\ tasks[i].status = "IN_PROGRESS"
          /\ tasks[i].priority = "NORMAL"

(* -------------------------------------------------------------------- C12 *)

\* The ids of the tasks of q, in queue order.
IdsOf(q) == [i \in 1..Len(q) |-> q[i].id]

\* C12: the tasks a plan() call creates become visible in one step, all of
\* them, at the end of the queue in the order of the steps, with depends_on
\* lists that name tasks of the same plan; and every write replaces the file
\* by the whole queue, so neither the queue nor the file ever holds a part of
\* a plan.
C12_PlanIsAtomic ==
    [][/\ \A i \in Idx(tasks') : tasks'[i].id < nextId'
       /\ nextId' > nextId =>
              /\ Len(tasks') = Len(tasks) + (nextId' - nextId)
              /\ SubSeq(tasks', 1, Len(tasks)) = tasks
              /\ IdsOf(SubSeq(tasks', Len(tasks) + 1, Len(tasks'))) =
                     [k \in 1..(nextId' - nextId) |-> nextId + k - 1]
              /\ last'.op = "plan" =>
                     \A i \in (Len(tasks) + 1)..Len(tasks') :
                         \A k \in DOMAIN tasks'[i].depends_on :
                             tasks'[i].depends_on[k] \in nextId..(nextId' - 1)
       /\ \/ file' = file
          \/ file'.state = "torn"
          \/ file'.state = "json" /\ LoadQueue(file') = tasks']_vars

\* While a task is in_progress a plan of two steps has just been added: its
\* two tasks end the queue and the file holds the whole queue.
C12_Witness ==
    /\ last.op = "plan" /\ last.ok
    /\ Len(last.steps) = 2
    /\ pc = "exec"
    /\ Len(tasks) >= 3
    /\ tasks[Len(tasks) - 1].id = last.id
    /\ tasks[Len(tasks)].id = last.id + 1
    /\ tasks[Len(tasks)].depends_on = <<last.id>>
    /\ LoadQueue(file) = tasks

(* -------------------------------------------------------------------- C13 *)

\* The steps of the plan that carry the planner-local id l.
StepsWithId(steps, l) == {m \in DOMAIN steps : steps[m].id = l}

\* C13: the task created for step k depends exactly on tasks created for the
\* steps that step k names by their planner-local id; names of no step are
\* dropped, so every dependency is a task of the same plan() call.
C13_DependenciesResolved ==
    (last.op = "plan" /\ last.resp = "steps") =>
        \A k \in DOMAIN last.steps :
            LET n == Len(last.steps)
                t == tasks[Len(tasks) - n + k]
                named == {last.steps[k].depends_on[x] :
                              x \in DOMAIN last.steps[k].depends_on}
                deps == {t.depends_on[x] : x \in DOMAIN t.depends_on}
            IN /\ t.id = last.id + k - 1
               /\ \A d \in deps :
                      /\ d \in last.id..(last.id + n - 1)
                      /\ last.steps[d - last.id + 1].id \in named
               /\ \A l \in named :
                      StepsWithId(last.steps, l) # {} =>
                          \E d \in deps : (d - last.id + 1) \in StepsWithId(last.steps, l)
               /\ Len(t.depends_on) =
                      Cardinality({x \in DOMAIN last.steps[k].depends_on :
                          StepsWithId(last.steps, last.steps[k].depends_on[x]) # {}})

\* A plan of two steps added to a queue of one task: the first step names an
\* id of no step and its task has no dependency, the second names the first
\* and its task depends on the task of the first.
C13_Witness ==
    /\ last.op = "plan" /\ last.resp = "steps"
    /\ last.id = 2
    /\ Len(last.steps) = 2
    /\ last.steps[1].depends_on = <<MaxSteps + 1>>
    /\ last.steps[2].depends_on = <<last.steps[1].id>>
    /\ last.steps[2].id # last.steps[1].id
    /\ tasks[2].depends_on = <<>>
    /\ tasks[3].depends_on = <<2>>

(* -------------------------------------------------------------------- C14 *)

\* C14: plan() raises only when the transport raised (or a write of the
\* queue file did); on an answer that is not a JSON object with a steps list
\* it appends exactly one task, with action = goal, task_type think and no
\* dependencies.
C14_MalformedAnswerGivesOneTask ==
    last.op = "plan" =>
        /\ last.resp \in {"not_json", "not_object"} =>
               /\ nextId = last.id + 1
               /\ tasks # <<>>
               /\ tasks[Len(tasks)].id = last.id
               /\ tasks[Len(tasks)].action = tasks[Len(tasks)].goal
               /\ tasks[Len(tasks)].task_type = "think"
               /\ tasks[Len(tasks)].depends_on = <<>>
        /\ (last.resp \in {"not_json", "not_object"} /\ faults = 0) => last.ok

(* -------------------------------------------------------------------- C15 *)

\* C15: the hook is invoked once after each failed execution that leaves the
\* task pending, before the next dispatch, and never after a successful
\* execution nor after the failure that makes the task failed.
C15_HookAfterRetryableFailureOnly ==
    [][/\ (pc' = "reflect" /\ pc # "reflect") =>
              /\ last'.op = "mark_failed"
              /\ last'.exec = "raised"
              /\ cur' = last'.id
              /\ HasStatus(tasks', cur', "PENDING")
       /\ (/\ last'.op = "mark_failed" /\ last'.ok
           /\ last'.exec = "raised"
           /\ HasStatus(tasks', last'.id, "PENDING")) => pc' = "reflect"
       /\ (last'.op = "mark_failed" /\ HasStatus(tasks', last'.id, "FAILED")) =>
              pc' # "reflect"
       /\ last'.op = "mark_completed" => pc' # "reflect"
       /\ last'.op = "dispatch" => pc # "reflect"
       /\ (pc = "reflect" /\ last'.op \notin {"add", "plan", "clear"}) =>
              pc' # "reflect"]_vars

(* -------------------------------------------------------------------- C16 *)

\* C16: after a handler failed with PermissionError the loop records one
\* attempt and does not invoke the reflection hook.
C16_NoReflectionAfterPermissionError ==
    /\ pc = "reflect" =>
           \A i \in Idx(tasks) : tasks[i].id = cur => tasks[i].error # "PermissionError"
    /\ \A i \in Idx(tasks) :
           tasks[i].error = "PermissionError" => Len(tasks[i].attempts) >= 1

(* -------------------------------------------------------------------- C17 *)

\* The command is one the Policy Oracle rejects.
Rejected(command) ==
    \/ requires_confirmation(policy, command)
    \/ /\ get_risk_level(policy, ShellDescription(command)) = "dangerous"
       /\ ~can_auto_execute(policy, "shell")

\* C17: no subprocess is ever started for a command that requires
\* confirmation, nor for a dangerous one while shell auto-execution is off;
\* a task with such a command, once handled, has a recorded attempt with a
\* permission error.
C17_NoSubprocessForRejectedCommand ==
    /\ \A c \in spawned : ~Rejected(c)
    /\ \A i \in Idx(tasks) :
           (/\ tasks[i].command # <<>>
            /\ Rejected(tasks[i].command)
            /\ tasks[i].id \in dispatched
            /\ tasks[i].status # "IN_PROGRESS")
           => /\ tasks[i].error = "PermissionError"
              /\ Len(tasks[i].attempts) >= 1
              /\ tasks[i].status \in {"PENDING", "FAILED"}

\* A command that needs no confirmation but is dangerous by its upper-case
\* pattern, with shell auto-execution off: the task has one failed attempt
\* and nothing was spawned.
C17_Witness ==
    /\ last.op = "mark_failed"
    /\ spawned = {}
    /\ ~policy.auto_execute_shell
    /\ \E i \in Idx(tasks) :
          /\ tasks[i].command # <<>>
          /\ ~requires_confirmation(policy, tasks[i].command)
          /\ get_risk_level(policy, ShellDescription(tasks[i].command)) = "dangerous"
          /\ tasks[i].error = "PermissionError"
          /\ Len(tasks[i].attempts) = 1

(* -------------------------------------------------------------------- C18 *)

\* A task as add_task and plan enqueue it: never dispatched.
Fresh(t) ==
    /\ t.status = "PENDING" /\ t.attempts = <<>>
    /\ t.result = None /\ t.error = None /\ t.completed_at = None

\* The queue b is the queue a after one mutation: tasks enqueued by one add or
\* plan, one task changed by a dispatch, mark_completed or mark_failed, or
\* the completed tasks cleared.
OneMutation(a, b) ==
    \/ /\ Len(b) > Len(a)
       /\ SubSeq(b, 1, Len(a)) = a
       /\ \A i \in (Len(a) + 1)..Len(b) : Fresh(b[i])
    \/ /\ Len(b) = Len(a)
       /\ Cardinality({i \in Idx(a) : a[i] # b[i]}) = 1
       /\ \A i \in Idx(a) : a[i].id = b[i].id
    \/ b = clear_completed_mem(a)

\* The step was a store operation whose write raised: the mutation is in
\* memory and the caller got the exception (the loop is in its except branch
\* or ended).
FailedWriteKeepsMutation ==
    (last'.op \in MutatingOps /\ ~last'.ok) =>
        /\ last'.op \in {"add", "plan"} =>
               /\ Len(tasks') = Len(tasks) + (nextId' - nextId)
               /\ SubSeq(tasks', 1, Len(tasks)) = tasks
               /\ nextId' > nextId
        /\ last'.op = "mark_completed" =>
               HasStatus(tasks', last'.id, "COMPLETED") /\ pc' = "except"
        /\ last'.op = "mark_failed" =>
               /\ \A i \in Idx(tasks) : \A j \in Idx(tasks') :
                      (tasks[i].id = last'.id /\ tasks'[j].id = last'.id) =>
                          Len(tasks'[j].attempts) = Len(tasks[i].attempts) + 1
               /\ pc' = "dead"
        /\ last'.op = "clear" =>
               /\ tasks' # tasks
               /\ \A i \in Idx(tasks') : tasks'[i].status # "COMPLETED"

C19_RestartLoadsLastWrittenQueue ==
    last.op = "restart" => tasks = durable

(* -------------------------------------------------------------------- C20 *)

\* The result of the task with this id, None when the queue has no such task.
ResultOf(q, id) ==
    IF FirstIndex(q, id) = 0 THEN None ELSE q[FirstIndex(q, id)].result

\* C20: a second mark_completed(id, result) with the same id and the same
\* result string leaves every field of every task and the queue file as the
\* first call left them.
C20_MarkCompletedIdempotent ==
    [][(/\ last.op = "mark_completed" /\ last.ok
        /\ last'.op = "mark_completed" /\ last'.ok
        /\ last'.id = last.id
        /\ ResultOf(tasks', last.id) = ResultOf(tasks, last.id))
       => (tasks' = tasks /\ file' = file)]_vars

(* -------------------------------------------------------------------- C21 *)

\* The indices of the tasks of q that are not completed, in queue order.
RECURSIVE KeptIndices(_, _)
KeptIndices(q, i) ==
    IF i > Len(q) THEN <<>>
    ELSE IF q[i].status = "COMPLETED" THEN KeptIndices(q, i + 1)
         ELSE <<i>> \o KeptIndices(q, i + 1)

\* C21: clear_completed removes exactly the completed tasks: every task with
\* another status stays, with all fields unchanged and in the same relative
\* order, and the file is rewritten to that result.
C21_ClearRemovesExactlyCompleted ==
    [][last'.op = "clear" =>
          LET kept == KeptIndices(tasks, 1)
          IN /\ Len(tasks') = Len(kept)
             /\ \A k \in DOMAIN kept : tasks'[k] = tasks[kept[k]]
             /\ \A i \in Idx(tasks') : tasks'[i].status # "COMPLETED"
             /\ last'.ok => (file'.state = "json" /\ LoadQueue(file') = tasks')]_vars

\* A queue of a failed, a completed and a cancelled task has been cleared: the
\* failed and the cancelled task are left, in this order, also in the file.
C21_Witness ==
    /\ last.op = "clear" /\ last.ok
    /\ Len(tasks) = 2
    /\ tasks[1].id = 1 /\ tasks[1].status = "FAILED"
    /\ tasks[2].id = 3 /\ tasks[2].status = "CANCELLED"
    /\ LoadQueue(file) = tasks

(* -------------------------------------------------------------------- C22 *)

\* C22: in every state reached by plan, add, mark_completed, mark_failed and
\* clear_completed, every id in every task's depends_on is the id of a task
\* of the same queue.
C22_DependenciesInQueue ==
    \A i \in Idx(tasks) :
        \A k \in DOMAIN tasks[i].depends_on :
            \E j \in Idx(tasks) : tasks[j].id = tasks[i].depends_on[k]

(* -------------------------------------------------------------------- C23 *)

\* C23: no two tasks of the queue have the same id, so that mark_completed(id)
\* and mark_failed(id) change exactly the task that was dispatched: when the
\* loop has recorded an outcome the task it had dispatched is not in_progress
\* any more.
C23_IdsUnique ==
    /\ \A i, j \in Idx(tasks) : tasks[i].id = tasks[j].id => i = j
    /\ last.op \in {"mark_completed", "mark_failed"} =>
           \A i \in Idx(tasks) :
               tasks[i].id = last.id => tasks[i].status # "IN_PROGRESS"

(* -------------------------------------------------------------------- C24 *)

\* C24: after the scheduler's startup every job of the jobs file that parses
\* and registers is held by the cron engine, also when another job of the
\* file, before or after it, does not; startup does not abort.
C24_GoodJobsRestored ==
    last.op = "scheduler_start" =>
        /\ last.ok
        /\ DefaultJobs \subseteq scheduler
        /\ schedule_file.state = "json" =>
               \A k \in DOMAIN schedule_file.data :
                   Registers(schedule_file.data[k]) =>
                       schedule_file.data[k].id \in scheduler

(* -------------------------------------------------------------------- C25 *)

\* C25: once stop() has been called the loop dispatches no task that was not
\* in_progress already, records the outcome of the task in flight, and
\* eventually exits, wherever stop() falls between the steps of start().
C25_StopEndsLoop ==
    /\ [][stopped => ~(pc # "exec" /\ pc' = "exec")]_vars
    /\ [][(stopped /\ pc = "exec" /\ pc' # "exec") =>
              last'.op \in {"mark_completed", "mark_failed"} /\ last'.id = cur]_vars
    /\ (stopped ~> pc \in {"done", "dead"})

(* -------------------------------------------------------------------- C26 *)

\* C26: when the dispatcher sets a task to in_progress the task was pending
\* immediately before, and the queue file holds the task as in_progress when
\* the executor is invoked for it.
C26_InProgressPersistedBeforeExecution ==
    [][(pc # "exec" /\ pc' = "exec") =>
          /\ HasStatus(tasks, cur', "PENDING")
          /\ HasStatus(tasks', cur', "IN_PROGRESS")
          /\ (OnFile(cur, "in_progress"))']_vars

(* -------------------------------------------------------------------- C27 *)

\* Every task of the queue is completed, in memory and in the queue file,
\* with a completed_at.
AllCompleted ==
    /\ \A i \in Idx(tasks) :
           tasks[i].status = "COMPLETED" /\ tasks[i].completed_at # None
    /\ file.state = "json"
    /\ Len(file.data) = Len(tasks)
    /\ \A k \in DOMAIN file.data :
           file.data[k].status = "completed" /\ file.data[k].completed_at # None

\* C27: for an acyclic plan whose executions all succeed, the loop eventually
\* completes every task of the plan, each task after all the tasks it depends
\* on, and the queue file then shows every task completed with a completed_at.
C27_AcyclicPlanCompletes ==
    /\ [][\A j \in Idx(tasks') :
              (tasks'[j].status = "COMPLETED" /\ ~HasStatus(tasks, tasks'[j].id, "COMPLETED"))
              => AllDepsCompleted(tasks, tasks'[j])]_vars
    /\ (last.op = "plan" ~> (tasks # <<>> /\ AllCompleted))
    /\ [][AllCompleted => AllCompleted']_vars

\* The plan whose first step names the second: the task of the second step
\* was completed first, the task of the first step last, and the file shows
\* both completed.
C27_Witness ==
    /\ last.op = "mark_completed" /\ last.id = 1
    /\ Len(tasks) = 2
    /\ tasks[1].depends_on = <<2>>
    /\ tasks[2].depends_on = <<>>
    /\ AllCompleted

(* -------------------------------------------------------------------- C28 *)

\* C28: for a request that needs no confirmation and an LLM answer that
\* parses, when the request's risk level is dangerous and the autonomy level
\* is not full, evaluate() returns a decision whose action is ask_human and
\* does not raise.
C28_DangerousAsksHuman ==
    (/\ last.op = "evaluate"
     /\ ~requires_confirmation(policy, decision.request)
     /\ decision.response.kind # "not_json"
     /\ get_risk_level(policy, decision.request) = "dangerous"
     /\ ~is_autonomous(policy))
    => /\ decision.result.outcome = "returned"
       /\ decision.result.action = "ask_human"

(* -------------------------------------------------------------------- C29 *)

\* C29: a file action whose operation is not read, write, create or delete
\* makes the handler fail, so the task records a failed attempt and is not
\* marked completed: a file task is completed only with the result of one of
\* the four operations.
C29_UnknownOperationFails ==
    \A i \in Idx(tasks) :
        /\ (tasks[i].task_type = "file" /\ tasks[i].status = "COMPLETED") =>
               tasks[i].result \in {"content", "File written", "File deleted"}
        /\ tasks[i].result # "Unknown file operation"

(* -------------------------------------------------------------------- C30 *)

\* C30: whatever the queue file holds at startup, the load never raises, and
\* it either restores the whole task list or starts with the empty queue.
C30_LoadRestoresAllOrNothing ==
    last.op = "load" =>
        /\ last.ok
        /\ \/ tasks = <<>>
           \/ /\ file.state = "json"
              /\ Len(tasks) = Len(file.data)
              /\ \A k \in DOMAIN file.data :
                     /\ tasks[k].id = file.data[k].id
                     /\ tasks[k].goal = file.data[k].goal

(* -------------------------------------------------------------------- C31 *)

\* The task of q with this id.
TaskOf(q, id) == q[FirstIndex(q, id)]

\* What reflect() leaves of the task t for the reflection r, as C31 states it.
ReflectedAs(t, u, r) ==
    /\ r.should_escalate =>
           u.task_type = "api" /\ u.command = <<"Escalated:">> \o r.escalation_reason
    /\ (~r.should_escalate /\ r.new_strategy # <<>>) =>
           u.command = r.new_strategy /\ u.task_type = t.task_type
    /\ (~r.should_escalate /\ r.new_strategy = <<>>) =>
           u.command = t.command /\ u.task_type = t.task_type
    /\ u.status = t.status /\ u.attempts = t.attempts
    /\ u.priority = t.priority /\ u.depends_on = t.depends_on

\* C31: reflect() changes the task it was called for as stated (escalation,
\* new strategy, or nothing) and leaves status, attempts, priority,
\* depends_on, the queue order and every other task alone; the values it set
\* are the ones the next dispatch of the task executes with.
C31_ReflectionRewritesTask ==
    [][/\ (last'.op = "reflect" /\ pc = "reflect") =>
              /\ IdsOf(tasks') = IdsOf(tasks)
              /\ \A i \in Idx(tasks) : tasks[i].id # cur => tasks'[i] = tasks[i]
              /\ ReflectedAs(TaskOf(tasks, cur), TaskOf(tasks', cur), reflection')
       /\ (last'.op = "dispatch" /\ reflection # NoReflection /\ cur' = reflection.task_id) =>
              /\ reflection.should_escalate =>
                     /\ TaskOf(tasks', cur').task_type = "api"
                     /\ TaskOf(tasks', cur').command =
                            <<"Escalated:">> \o reflection.escalation_reason
              /\ (~reflection.should_escalate /\ reflection.new_strategy # <<>>) =>
                     TaskOf(tasks', cur').command = reflection.new_strategy
       /\ (spawned' # spawned /\ reflection # NoReflection /\ cur = reflection.task_id) =>
              /\ ~reflection.should_escalate
              /\ reflection.new_strategy # <<>> =>
                     spawned' = spawned \cup {reflection.new_strategy}]_vars

\* max_retries = 2: the first attempt of the shell task failed, the
\* reflection set its command to "ls", the second attempt ran "ls" and the
\* task is completed with one recorded attempt.
C31_Witness ==
    /\ max_retries = 2
    /\ last.op = "mark_completed" /\ last.id = 1
    /\ reflection # NoReflection
    /\ reflection.task_id = 1 /\ reflection.new_strategy = <<"ls">>
    /\ ~reflection.should_escalate
    /\ tasks[1].status = "COMPLETED"
    /\ tasks[1].command = <<"ls">>
    /\ Len(tasks[1].attempts) = 1
    /\ <<"ls">> \in spawned
    /\ tasks[2].status = "PENDING"

(* -------------------------------------------------------------------- C32 *)

\* The task with this id is in_progress and the loop does not hold it.
Stale(id) == HasStatus(tasks, id, "IN_PROGRESS") /\ cur # id

\* The loop holds the task with this id, or its status is terminal.
Resumed(id) ==
    \/ pc = "exec" /\ cur = id
    \/ \E st \in TerminalStatus : HasStatus(tasks, id, st)

\* C32: a task that a restart loaded as in_progress is dispatched again or
\* reaches a terminal status, and at most one task is in_progress after the
\* restart.
C32_StaleInProgressResumes ==
    /\ [](Cardinality({i \in Idx(tasks) : tasks[i].status = "IN_PROGRESS"}) <= 1)
    /\ \A id \in 1..MaxIds : Stale(id) ~> Resumed(id)

(* -------------------------------------------------------------------- C33 *)

\* The task with this id is in q, pending, with every dependency completed.
RunnableId(q, id) == \E i \in Idx(q) : q[i].id = id /\ Runnable(q, i)

\* C33: a runnable task stays runnable over every step of add, plan,
\* mark_completed, mark_failed and clear_completed, up to the step that
\* dispatches it.
C33_RunnableUntilDispatched ==
    [][\A id \in 1..MaxIds :
           (/\ RunnableId(tasks, id)
            /\ last'.op \in {"add", "plan", "mark_completed", "mark_failed",
                             "clear", "dispatch", "reflect"}
            /\ ~(last'.op = "dispatch" /\ last'.id = id))
               => RunnableId(tasks', id)]_vars

(* -------------------------------------------------------------------- C34 *)

\* Task i of q names task j of q in its depends_on.
DependsOn(q, i, j) ==
    \E k \in DOMAIN q[i].depends_on : q[i].depends_on[k] = q[j].id

\* C34: whatever step list plan() was given, the tasks of the queue can be put
\* in an order in which every task comes after the tasks it depends on, so no
\* task depends on itself, directly or through other tasks.
C34_PlannedTasksAcyclic ==
    \E f \in [Idx(tasks) -> Idx(tasks)] :
        /\ \A i, j \in Idx(tasks) : f[i] = f[j] => i = j
        /\ \A i, j \in Idx(tasks) : DependsOn(tasks, i, j) => f[j] < f[i]

(* -------------------------------------------------------------------- C35 *)

\* C35: the loop does not end when the reflection callback or the write
\* inside mark_failed raises, and every runnable task is eventually
\* dispatched.
C35_LoopSurvivesCollaborators ==
    /\ [](pc # "dead")
    /\ \A id \in 1..MaxIds :
           RunnableId(tasks, id) ~> (pc = "exec" /\ cur = id)

(* -------------------------------------------------------------------- C36 *)

\* C36: every command line a handler gave to subprocess.run is one for which
\* requires_confirmation is false.
C36_SideEffectsBehindGate ==
    \A c \in spawned : ~requires_confirmation(policy, c)

(* -------------------------------------------------------------------- C37 *)

\* C37: whatever the LLM answers, evaluate() does not return a decision whose
\* action is execute for a request whose risk level is dangerous while the
\* autonomy level is not full.
C37_NeverExecutesDangerous ==
    (/\ last.op = "evaluate"
     /\ get_risk_level(policy, decision.request) = "dangerous"
     /\ ~is_autonomous(policy))
    => ~(decision.result.outcome = "returned" /\ decision.result.action = "execute")

(* -------------------------------------------------------------------- C38 *)

\* The ids of the entries of a job list.
JobIds(l) == {l[k].id : k \in DOMAIN l}

\* C38: once start() has run, custom_jobs has pairwise distinct ids, it lists
\* exactly the dynamic jobs the cron engine holds, and the jobs file holds the
\* same list.
C38_DynamicJobsConsistent ==
    SchedulerStarted =>
        /\ \A k, m \in DOMAIN custom_jobs :
               custom_jobs[k].id = custom_jobs[m].id => k = m
        /\ JobIds(custom_jobs) = scheduler \ DefaultJobs
        /\ schedule_file.state = "json" => schedule_file.data = custom_jobs
        /\ schedule_file.state # "json" => custom_jobs = <<>>

(* -------------------------------------------------------------------- C39 *)

\* No task is in_progress and no task is runnable.
Quiescent ==
    \A i \in Idx(tasks) :
        tasks[i].status # "IN_PROGRESS" /\ ~Runnable(tasks, i)

\* How often the handler of t has been started: once for every recorded
\* attempt, and once more when it is running or has returned.
Executions(t) ==
    Len(t.attempts) + (IF t.status \in {"IN_PROGRESS", "COMPLETED"} THEN 1 ELSE 0)

\* C39: with max_retries >= 1 the loop ends up quiescent for good, and no
\* task is ever executed more than max_retries times.
C39_LoopQuiesces ==
    /\ <>[](max_retries >= 1 => Quiescent)
    /\ [](max_retries >= 1 =>
              \A i \in Idx(tasks) : Executions(tasks[i]) <= max_retries)

(* -------------------------------------------------------------------- C40 *)

\* C40: mark_failed is called only for an execution that raised; a task whose
\* execution returned keeps its attempts, does not reach the reflection
\* callback and is not dispatched again, also when the write inside
\* mark_completed failed.
C40_SuccessNeverRecordedAsFailure ==
    [][last'.op # "restart" =>
          /\ last'.op = "mark_failed" => last'.exec = "raised"
          /\ last'.op = "mark_completed" => pc' # "reflect"
          /\ \A i \in Idx(tasks) : \A j \in Idx(tasks') :
                 (tasks[i].result # None /\ tasks'[j].id = tasks[i].id) =>
                     /\ tasks'[j].attempts = tasks[i].attempts
                     /\ ~(last'.op = "dispatch" /\ last'.id = tasks[i].id)
                     /\ ~(pc' = "reflect" /\ cur' = tasks[i].id)]_vars

====
